---- MODULE Spec2Model ----
(***************************************************************************)
(* A model of matchstick's execution engine (src/src/wasm_instance.rs):    *)
(* the process-wide registries STORE, FUNCTIONS_MAP, LOGS and TEST_RESULTS,*)
(* the host functions of WICExtension that act on them, the handler        *)
(* invocation controller WasmInstance::invoke_handler and the timeout      *)
(* watchdog task started by WasmInstance::from_valid_module_with_ctx.      *)
(*                                                                         *)
(* Text is modelled as a sequence of atoms (an atom is an indivisible run  *)
(* of characters), so that format! and String + are concatenation and two  *)
(* different ways of building the same text give equal values.             *)
(***************************************************************************)
EXTENDS Integers, Sequences, FiniteSets, TLC

VARIABLES
    STORE,          \* static STORE: entity type -> (id -> (field -> Value))
    FUNCTIONS_MAP,  \* static FUNCTIONS_MAP: fingerprint -> Token
    LOGS,           \* static LOGS: IndexMap<String, Level>, in insertion order
    TEST_RESULTS,   \* static TEST_RESULTS: IndexMap<String, bool>, in insertion order
    panicked,       \* a panic!/unwrap/expect/unreachable! has unwound the harness
    last,           \* the host call that ran last, with its arguments and result
    steps,          \* number of host calls made so far
    hist,           \* history: what store.set wrote last per (type, id), pairs ever set
    phase,          \* WasmInstance: "new" (not instantiated), "failed" (instantiation
                    \* returned Err), "idle", "running" (in func.call)
    valid_module,   \* the module handed to from_valid_module_with_ctx
    ctx,            \* instance_ctx: the WasmInstanceContext (with ctx.state) or its absence
    timeout,        \* the timeout given to from_valid_module_with_ctx, 0 for None
    elapsed,        \* timeout_stopwatch.elapsed(), in units of half a second
    wd,             \* the watchdog task: where it is in its loop, when its delay ends,
                    \* how often it signalled the interrupt and in which situation
    interrupt,      \* interrupt_handle.interrupt() was signalled and not yet delivered
    call,           \* the invoke_handler call in flight
    outcome,        \* what the last invoke_handler call returned
    invocations,    \* number of invoke_handler calls made
    mapping_ctx,    \* the MappingContext handed to from_valid_module_with_ctx: whether the
                    \* Option still holds it, how often it was moved out, and by what
    threads,        \* callers of the registry functions on concurrent threads: where each
                    \* one is in its function and which mutex guards it holds
    poisoned        \* the registry mutexes a thread panicked under

registries == <<STORE, FUNCTIONS_MAP, LOGS, TEST_RESULTS>>

instance ==
    <<phase, valid_module, ctx, timeout, elapsed, wd, interrupt, call, outcome, invocations,
      mapping_ctx>>

concurrency == <<threads, poisoned>>

\* ------------------------------------------------------------------ bounds

\* Host calls made directly against the registries in one run.
MaxSteps == 4

\* mockFunction / ethereum.call calls in one run.
MaxStubCalls == 3

\* invoke_handler calls on one instance.
MaxInvocations == 2

\* Host calls made by one handler.
MaxHostCalls == 2

\* The stopwatch runs up to this many half seconds.
MaxTime == 4

\* The longest timeout configured, in half seconds.
MaxTimeout == 3

\* Calls the concurrent callers make between them.
MaxThreadCalls == 3

\* ------------------------------------------------------------------ text

\* haystack.contains(needle) on texts.
Contains(haystack, needle) ==
    \E k \in 0..(Len(haystack) - Len(needle)) :
        SubSeq(haystack, k + 1, k + Len(needle)) = needle

\* ------------------------------------------------------------------ values

\* graph::data::store::Value, reduced to two of its variants.
VString(s) == [kind |-> "String", s |-> s]
VInt(s) == [kind |-> "Int", s |-> s]

\* Value::to_string(), the Display form used by assert_field_equals: the text
\* of the value without its variant, so String("1") and Int(1) both give "1".
value_to_string(v) == v.s

EntityTypes == {"Token", "Pool"}
EntityIds == {"1", "2"}
FieldNames == {"symbol", "decimals"}

\* The field mappings handed to store.set (HashMap<String, Value>).
Datas ==
    { ("symbol" :> VString(<<"AAA">>)),
      ("symbol" :> VString(<<"BBB">>)) @@ ("decimals" :> VInt(<<"1">>)),
      ("decimals" :> VString(<<"1">>)) }

\* The expected values handed to assert.fieldEquals.
ExpectedVals == { <<"AAA">>, <<"1">> }

\* ------------------------------------------------------------------ ledger

Levels == {"ERROR", "WARNING", "INFO", "DEBUG", "SUCCESS", "UNKNOWN"}

level_from_u32(n) ==
    CASE n = 1 -> "ERROR"
      [] n = 2 -> "WARNING"
      [] n = 3 -> "INFO"
      [] n = 4 -> "DEBUG"
      [] n = 5 -> "SUCCESS"
      [] OTHER -> "UNKNOWN"

\* IndexMap::contains_key / get / insert on a sequence of [key, val] entries:
\* insert keeps an existing key in its place and replaces its value, and
\* appends a new key at the end.
contains_key(m, k) == \E j \in 1..Len(m) : m[j].key = k

map_get(m, k) == (CHOOSE j \in 1..Len(m) : m[j].key = k)

\* An insert that moves an existing key to the end.
index_insert_moving(m, k, v) ==
    LET others(e) == e.key # k
    IN  Append(SelectSeq(m, others), [key |-> k, val |-> v])

index_insert(m, k, v) ==
    IF contains_key(m, k)
    THEN [j \in 1..Len(m) |-> IF m[j].key = k THEN [key |-> k, val |-> v] ELSE m[j]]
    ELSE Append(m, [key |-> k, val |-> v])

\* A get_failed_tests that leaves the first record out of its count.
get_failed_tests_skipping(tr) == Cardinality({j \in 2..Len(tr) : ~tr[j].val})

\* get_successful_tests / get_failed_tests
get_successful_tests(tr) == Cardinality({j \in 1..Len(tr) : tr[j].val})

get_failed_tests(tr) == Cardinality({j \in 1..Len(tr) : ~tr[j].val})

\* A styled that prints the text alone for every level.
styled_plain(s, n) == [kind |-> "log", level |-> "", text |-> s]

\* styled(s, n): the line println! prints for a log entry, as the level word
\* in front of the text; Level::UNKNOWN prints the text with no word.
styled(s, n) ==
    IF n = "UNKNOWN" THEN [kind |-> "log", level |-> "", text |-> s]
    ELSE [kind |-> "log", level |-> n, text |-> s]

\* flush_logs: one line for each entry of LOGS in its order: the pass or fail
\* mark and the key when the key is a key of TEST_RESULTS, else styled(k, v).
flush_logs(tr, logs) ==
    [j \in 1..Len(logs) |->
        IF contains_key(tr, logs[j].key)
        THEN [kind |-> IF tr[map_get(tr, logs[j].key)].val THEN "pass" ELSE "fail",
              level |-> "", text |-> logs[j].key]
        ELSE styled(logs[j].key, logs[j].val)]

\* A fail_test that flips the status of the last test.
fail_test_toggling(tr, logs, msg) ==
    IF Len(tr) = 0
    THEN [tr |-> tr, logs |-> logs, panic |-> TRUE]
    ELSE [tr |-> index_insert(tr, tr[Len(tr)].key, ~tr[Len(tr)].val),
          logs |-> index_insert(logs, msg, "ERROR"),
          panic |-> FALSE]

\* A fail_test that sets the first key of TEST_RESULTS to false.
fail_test_first(tr, logs, msg) ==
    IF Len(tr) = 0
    THEN [tr |-> tr, logs |-> logs, panic |-> TRUE]
    ELSE [tr |-> index_insert(tr, tr[1].key, FALSE),
          logs |-> index_insert(logs, msg, "ERROR"),
          panic |-> FALSE]

\* fail_test(msg): the last key of TEST_RESULTS is set to false and msg is
\* logged as ERROR; with no test registered keys().last().unwrap() panics
\* before anything is written.
fail_test(tr, logs, msg) ==
    IF Len(tr) = 0
    THEN [tr |-> tr, logs |-> logs, panic |-> TRUE]
    ELSE [tr |-> index_insert(tr, tr[Len(tr)].key, FALSE),
          logs |-> index_insert(logs, msg, "ERROR"),
          panic |-> FALSE]

\* ------------------------------------------------------------------ mock store

EmptyMap == [x \in {} |-> TRUE]

Put(m, k, v) == [x \in (DOMAIN m) \cup {k} |-> IF x = k THEN v ELSE m[x]]

Del(m, k) == [x \in (DOMAIN m) \ {k} |-> m[x]]

has_entity(store, t, i) == t \in DOMAIN store /\ i \in DOMAIN store[t]

\* mock_store_get: Some(entity) as {entity}, AscPtr::null() as {}.
mock_store_get(store, t, i) ==
    IF has_entity(store, t, i) THEN {store[t][i]} ELSE {}

\* store.set that merges the new fields into the entity already stored.
mock_store_set_merging(store, t, i, data) ==
    LET inner_map == IF t \in DOMAIN store THEN store[t] ELSE EmptyMap
        old == IF i \in DOMAIN inner_map THEN inner_map[i] ELSE EmptyMap
    IN  Put(store, t, Put(inner_map, i, data @@ old))

\* store.set that keeps an entity already stored under the id.
mock_store_set_keeping(store, t, i, data) ==
    LET inner_map == IF t \in DOMAIN store THEN store[t] ELSE EmptyMap
    IN  IF i \in DOMAIN inner_map THEN store ELSE Put(store, t, Put(inner_map, i, data))

\* mock_store_set: the bucket of the type (a clone of it, or a new one) gets
\* id -> data and is put back under the type.
\* A set that starts the bucket of the type afresh with the one entity.
mock_store_set_fresh_bucket(store, t, i, data) ==
    Put(store, t, Put(EmptyMap, i, data))

mock_store_set(store, t, i, data) ==
    LET inner_map == IF t \in DOMAIN store THEN store[t] ELSE EmptyMap
    IN  Put(store, t, Put(inner_map, i, data))

\* A clear that empties every bucket and keeps the buckets.
clear_store_keeping_buckets(store) == [t \in DOMAIN store |-> EmptyMap]

\* clear_store: STORE.lock().clear()
clear_store(store) == EmptyMap

remove_msg(t, i) ==
    <<"(store.remove) Entity with type '", t, "' and id '", i,
      "' does not exist. Problem originated from store.remove()">>

\* store.remove that writes the bucket back on the failure path as well.
mock_store_remove_writing(store, tr, logs, t, i) ==
    IF has_entity(store, t, i)
    THEN [store |-> Put(store, t, Del(store[t], i)),
          tr |-> tr, logs |-> logs, panic |-> FALSE, failed |-> FALSE, msg |-> <<>>]
    ELSE LET r == fail_test(tr, logs, remove_msg(t, i))
             inner_map == IF t \in DOMAIN store THEN store[t] ELSE EmptyMap
         IN  [store |-> Put(store, t, inner_map), tr |-> r.tr, logs |-> r.logs,
              panic |-> r.panic, failed |-> TRUE, msg |-> remove_msg(t, i)]

\* mock_store_remove: the result is the new store and what fail_test did.
mock_store_remove(store, tr, logs, t, i) ==
    IF has_entity(store, t, i)
    THEN [store |-> Put(store, t, Del(store[t], i)),
          tr |-> tr, logs |-> logs, panic |-> FALSE, failed |-> FALSE, msg |-> <<>>]
    ELSE LET r == fail_test(tr, logs, remove_msg(t, i))
         IN  [store |-> store, tr |-> r.tr, logs |-> r.logs, panic |-> r.panic,
              failed |-> TRUE, msg |-> remove_msg(t, i)]

no_type_msg(t) ==
    <<"(assert.fieldEquals) No entities with type '", t, "' found.">>

no_id_msg(t, i) ==
    <<"(assert.fieldEquals) No entity with type '", t, "' and id '", i, "' found.">>

no_field_msg(f, t, i) ==
    <<"(assert.fieldEquals) No field named '", f, "' on entity with type '", t,
      "' and id '", i, "' found.">>

mismatch_msg(f, expected, val) ==
    <<"(assert.fieldEquals) Expected field '", f, "' to equal '">> \o expected
        \o <<"', but was '">> \o value_to_string(val) \o <<"' instead.">>

\* assert.fieldEquals that reports a missing id with the missing-type message.
assert_failure_same_msg(store, t, i, f, expected) ==
    IF t \notin DOMAIN store THEN no_type_msg(t)
    ELSE IF i \notin DOMAIN store[t] THEN no_type_msg(t)
    ELSE IF f \notin DOMAIN store[t][i] THEN no_field_msg(f, t, i)
    ELSE IF value_to_string(store[t][i][f]) # expected
         THEN mismatch_msg(f, expected, store[t][i][f])
    ELSE <<>>

\* assert_field_equals: the message of the first check that fails, or <<>>
\* when every check passes.
assert_failure(store, t, i, f, expected) ==
    IF t \notin DOMAIN store THEN no_type_msg(t)
    ELSE IF i \notin DOMAIN store[t] THEN no_id_msg(t, i)
    ELSE IF f \notin DOMAIN store[t][i] THEN no_field_msg(f, t, i)
    ELSE IF value_to_string(store[t][i][f]) # expected
         THEN mismatch_msg(f, expected, store[t][i][f])
    ELSE <<>>

assert_field_equals(store, tr, logs, t, i, f, expected) ==
    LET msg == assert_failure(store, t, i, f, expected)
    IN  IF msg = <<>>
        THEN [tr |-> tr, logs |-> logs, panic |-> FALSE, failed |-> FALSE, msg |-> msg]
        ELSE LET r == fail_test(tr, logs, msg)
             IN  [tr |-> r.tr, logs |-> r.logs, panic |-> r.panic,
                  failed |-> TRUE, msg |-> msg]

\* register_test: a name already in TEST_RESULTS panics; a new one is
\* inserted as passed and logged as INFO.
\* A register_test that takes a name again and sets it back to passed.
register_test_again(tr, logs, name) ==
    [tr |-> index_insert(tr, name, TRUE),
     logs |-> index_insert(logs, name, "INFO"),
     panic |-> FALSE]

register_test(tr, logs, name) ==
    IF contains_key(tr, name)
    THEN [tr |-> tr, logs |-> logs, panic |-> TRUE]
    ELSE [tr |-> index_insert(tr, name, TRUE),
          logs |-> index_insert(logs, name, "INFO"),
          panic |-> FALSE]

\* log: level 0 panics, level 1 is fail_test, any other level inserts into LOGS.
log(tr, logs, level, msg) ==
    IF level = 0 THEN [tr |-> tr, logs |-> logs, panic |-> TRUE]
    ELSE IF level = 1 THEN fail_test(tr, logs, msg)
    ELSE [tr |-> tr, logs |-> index_insert(logs, msg, level_from_u32(level)),
          panic |-> FALSE]

\* ------------------------------------------------------------------ call stubs

\* ethabi::Token, reduced to three variants; s is the text Display prints.
TUint(s) == [kind |-> "Uint", s |-> s]
TInt(s) == [kind |-> "Int", s |-> s]
TString(s) == [kind |-> "String", s |-> s]

\* Token::to_string(): Uint and Int both print the number in hex, String
\* prints its content; the variant is not printed.
token_to_string(tok) == tok.s

\* An Address (H160) as <<first two bytes, middle sixteen bytes, last two bytes>>.
\* Address::to_string() is the abbreviated Display form: "0x", the first two
\* bytes, an ellipsis, the last two bytes.
address_to_string(a) == <<"0x", a[1], "...", a[3]>>

RECURSIVE concat_args(_)
concat_args(fn_args) ==
    IF fn_args = <<>> THEN <<>>
    ELSE token_to_string(Head(fn_args)) \o concat_args(Tail(fn_args))

\* create_unique_fn_string: the address text, then the function name, then
\* the text of each argument in order, with nothing in between.
create_unique_fn_string(contract_address, fn_name, fn_args) ==
    contract_address \o fn_name \o concat_args(fn_args)

\* mock_function: FUNCTIONS_MAP.insert(fingerprint, return_value)
mock_function(map, addr, fn_name, fn_args, return_value) ==
    Put(map, create_unique_fn_string(address_to_string(addr), fn_name, fn_args),
        return_value)

\* ethereum_call: the stubbed token as a one-element array, or a panic when
\* the fingerprint is not a key of FUNCTIONS_MAP.
ethereum_call(map, addr, fn_name, fn_args) ==
    LET unique_fn_string ==
            create_unique_fn_string(address_to_string(addr), fn_name, fn_args)
    IN  IF unique_fn_string \in DOMAIN map
        THEN [ret |-> {map[unique_fn_string]}, panic |-> FALSE]
        ELSE [ret |-> {}, panic |-> TRUE]

Addresses == { <<"aaaa", "00", "bbbb">>, <<"aaaa", "ff", "bbbb">>, <<"cccc", "00", "dddd">> }

FnNames == { <<"f">>, <<"f", "1">> }

ArgLists ==
    { <<>>,
      <<TUint(<<"1">>)>>,
      <<TInt(<<"1">>)>>,
      <<TUint(<<"1">>), TUint(<<"2">>)>>,
      <<TUint(<<"2">>), TUint(<<"1">>)>>,
      <<TUint(<<"1", "2">>)>> }

ReturnTokens == { TUint(<<"7">>), TUint(<<"9">>) }

\* ------------------------------------------------------------------ instance

\* pub const TRAP_TIMEOUT
TRAP_TIMEOUT == <<"trap: interrupt">>

\* wasmtime::TrapCode; "None" is a trap without a code (a host function's error).
TrapCodes ==
    {"StackOverflow", "MemoryOutOfBounds", "HeapMisaligned", "TableOutOfBounds",
     "IndirectCallToNull", "BadSignature", "IntegerOverflow", "IntegerDivisionByZero",
     "BadConversionToInteger", "UnreachableCodeReached", "Interrupt"}

\* The trap codes invoke_handler's match treats as deterministic.
DeterministicTrapCodes ==
    {"MemoryOutOfBounds", "HeapMisaligned", "TableOutOfBounds", "IndirectCallToNull",
     "BadSignature", "IntegerOverflow", "IntegerDivisionByZero",
     "BadConversionToInteger", "UnreachableCodeReached"}

\* Trap::to_string(): a wasm trap prints "wasm trap: " and what its code
\* stands for; a host function's error prints the error's own text.
trap_to_string(code) ==
    IF code = "Interrupt" THEN <<"wasm ">> \o TRAP_TIMEOUT
    ELSE IF code = "None" THEN <<"host function error">>
    ELSE <<"wasm trap: ", code>>

\* instance_ctx = None; the flags and BlockState counters of a new context.
\* No module yet. A module is known by the names it imports; api_version is
\* the patch number of the mapping's apiVersion 0.0.x.
NoModule == [imports |-> {}, api_version |-> 0]

\* No watchdog task. pc is "off", "check" (about to read the stopwatch),
\* "sleep" (in delay_for) or "done"; signals counts interrupt() calls, and
\* signalled_in is the phase of the instance at the last one, "completed"
\* when its last handler call had returned normally.
NoWatchdog == [pc |-> "off", wake |-> 0, signals |-> 0, signalled_in |-> "none"]

\* let ctx = Rc::new(RefCell::new(Some(ctx))): the mapping context before it
\* is moved; moves counts ctx.borrow_mut().take(), by says where the last one
\* was: "start" (a host call of the start function) or "after" (after
\* linker.instantiate).
HeldCtx == [held |-> TRUE, moves |-> 0, by |-> "none"]

\* ctx.borrow_mut().take()
take_mapping_ctx(mc, by) == [held |-> FALSE, moves |-> mc.moves + 1, by |-> by]

NoCtx ==
    [present |-> FALSE, in_handler |-> 0, deterministic_errors |-> 0,
     deterministic_host_trap |-> FALSE, possible_reorg |-> FALSE]

NewCtx == [NoCtx EXCEPT !.present = TRUE]

\* No invoke_handler call in flight. A call in flight records its handler, the
\* stopwatch reading and the store when it began, the host calls it made,
\* and per (type, id) what its store calls wrote last: {data} after a
\* store.set, {} after a store.remove, no entry if it wrote neither.
NoInvocation ==
    [handler |-> "", started |-> 0, entry_store |-> EmptyMap, entry_in_handler |-> 0,
     host_calls |-> 0, written |-> EmptyMap]

\* No invoke_handler call has returned yet. A returned call records the
\* result (variant: Ok, PossibleReorg or Unknown; kind: which exit path), the
\* trap and flags the match saw, and the nesting counter before and after.
NoOutcome ==
    [kind |-> "none", variant |-> "none", handler |-> "", trap_code |-> "none",
     by_watchdog |-> FALSE, possible_reorg |-> FALSE, deterministic_host_trap |-> FALSE,
     in_handler_before |-> 0, in_handler_after |-> 0]

\* BlockState::enter_handler / exit_handler, as the nesting counter of the
\* execution context.
enter_handler(c) == [c EXCEPT !.in_handler = @ + 1]

\* An exit_handler that also resets the two flags of the context.
exit_handler_clearing(c) ==
    [c EXCEPT !.in_handler = @ - 1, !.deterministic_host_trap = FALSE,
              !.possible_reorg = FALSE]

exit_handler(c) == [c EXCEPT !.in_handler = @ - 1]

\* BlockState::exit_handler_and_discard_changes_due_to_error: leaves the
\* handler and records the SubgraphError in the block state.
exit_handler_and_discard_changes_due_to_error(c) ==
    [c EXCEPT !.in_handler = @ - 1, !.deterministic_errors = @ + 1]

\* A match that tests the trap's text for the interrupt before it tests the
\* possible_reorg flag.
classify_trap_interrupt_first(c, trap_code) ==
    IF Contains(trap_to_string(trap_code), TRAP_TIMEOUT) THEN "Timeout"
    ELSE IF c.possible_reorg THEN "PossibleReorg"
    ELSE IF trap_code \in DeterministicTrapCodes THEN "Deterministic"
    ELSE IF c.deterministic_host_trap THEN "Deterministic"
    ELSE "Unknown"

\* The match on the failed call in invoke_handler: which arm a trap takes,
\* given the context's flags, the trap's text and the trap's code.
classify_trap(c, trap_code) ==
    IF c.possible_reorg THEN "PossibleReorg"
    ELSE IF Contains(trap_to_string(trap_code), TRAP_TIMEOUT) THEN "Timeout"
    ELSE IF trap_code \in DeterministicTrapCodes THEN "Deterministic"
    ELSE IF c.deterministic_host_trap THEN "Deterministic"
    ELSE "Unknown"


\* ------------------------------------------------------------------ host calls

TestNames == { <<"t1">>, <<"t2">> }

\* Messages handed to log.log; one of them reads like a test name.
LogMsgs == { <<"m">>, <<"t1">> }

LogLevels == {0, 1, 3, 7}

Pairs == EntityTypes \X EntityIds

\* The concurrent callers, and a caller that is in no function: c is the call
\* it is in, pc its position in the function's program (0 when in none), msg
\* the failure message it built, name the test name fail_test read, held the
\* mutexes whose guards it holds, done how many calls it began, died whether
\* it panicked, registered the names its register_test calls returned Ok for.
Threads == {1, 2}

NoThreadCall ==
    [op |-> "none", t |-> "", i |-> "", f |-> "", x |-> <<>>, data |-> {}, level |-> 0]

IdleThread ==
    [c |-> NoThreadCall, pc |-> 0, msg |-> <<>>, name |-> <<>>, held |-> {},
     done |-> 0, died |-> FALSE, registered |-> {}]

NoCall ==
    [op |-> "none", t |-> "", i |-> "", f |-> "", x |-> <<>>, data |-> {},
     call |-> <<>>, ret |-> {}, failed |-> FALSE, msg |-> <<>>, out |-> <<>>]

CanCall == ~panicked /\ steps < MaxSteps

\* History kept for the claims: recent[p] is {data} of the last store.set on
\* pair p since the last store.remove of p or clearStore, else {}; ever is the
\* set of pairs store.set was ever called on; overwritten[p] is what recent[p]
\* was before the last store.set on p; stubs maps each call triple mockFunction
\* was called with to the return value of the most recent such call; failed is
\* the set of tests that were the last one registered when a failure was
\* recorded; logged maps each text that log.log put into LOGS, or that was
\* recorded as a failure message, to the level of the last time; start_calls
\* lists the host calls made while the module was instantiated, each with the
\* routine that made it ("start" or "_start") and the import's name.
HistInit ==
    [recent |-> [p \in Pairs |-> {}], overwritten |-> [p \in Pairs |-> {}], ever |-> {},
     stubs |-> EmptyMap, failed |-> {}, logged |-> EmptyMap, start_calls |-> <<>>]

\* hist after a host call that recorded a failure with message msg (failed),
\* unless the call panicked.
note_failure(h, tr, failed, panic, msg) ==
    IF failed /\ ~panic
    THEN [h EXCEPT !.failed = @ \cup {tr[Len(tr)].key}, !.logged = Put(@, msg, "ERROR")]
    ELSE h

InitRegistries ==
    /\ STORE = EmptyMap
    /\ FUNCTIONS_MAP = EmptyMap
    /\ LOGS = <<>>
    /\ TEST_RESULTS = <<>>
    /\ panicked = FALSE
    /\ last = NoCall
    /\ steps = 0
    /\ hist = HistInit
    /\ phase = "new"
    /\ valid_module = NoModule
    /\ ctx = NoCtx
    /\ timeout = 0
    /\ elapsed = 0
    /\ wd = NoWatchdog
    /\ interrupt = FALSE
    /\ call = NoInvocation
    /\ outcome = NoOutcome
    /\ invocations = 0
    /\ mapping_ctx = HeldCtx
    /\ threads = [th \in Threads |-> IdleThread]
    /\ poisoned = {}

StoreSet(t, i, data) ==
    /\ CanCall
    /\ STORE' = mock_store_set(STORE, t, i, data)
    /\ last' = [NoCall EXCEPT !.op = "store.set", !.t = t, !.i = i, !.data = {data}]
    /\ hist' = [hist EXCEPT !.recent[<<t, i>>] = {data},
                            !.overwritten[<<t, i>>] = hist.recent[<<t, i>>],
                            !.ever = @ \cup {<<t, i>>}]
    /\ steps' = steps + 1
    /\ UNCHANGED <<FUNCTIONS_MAP, LOGS, TEST_RESULTS, panicked>>
    /\ UNCHANGED <<instance, concurrency>>

StoreGet(t, i) ==
    /\ CanCall
    /\ last' = [NoCall EXCEPT !.op = "store.get", !.t = t, !.i = i,
                              !.ret = mock_store_get(STORE, t, i)]
    /\ steps' = steps + 1
    /\ UNCHANGED <<registries, panicked, hist>>
    /\ UNCHANGED <<instance, concurrency>>

StoreRemove(t, i) ==
    /\ CanCall
    /\ LET r == mock_store_remove(STORE, TEST_RESULTS, LOGS, t, i)
       IN  /\ STORE' = r.store
           /\ TEST_RESULTS' = r.tr
           /\ LOGS' = r.logs
           /\ panicked' = r.panic
           /\ last' = [NoCall EXCEPT !.op = "store.remove", !.t = t, !.i = i,
                                     !.failed = r.failed, !.msg = r.msg]
           /\ hist' = [note_failure(hist, TEST_RESULTS, r.failed, r.panic, r.msg)
                           EXCEPT !.recent[<<t, i>>] = {}, !.overwritten[<<t, i>>] = {}]
    /\ steps' = steps + 1
    /\ UNCHANGED FUNCTIONS_MAP
    /\ UNCHANGED <<instance, concurrency>>

\* A clearStore that empties all four registries.
ClearAll ==
    /\ CanCall
    /\ STORE' = clear_store(STORE)
    /\ FUNCTIONS_MAP' = EmptyMap
    /\ LOGS' = <<>>
    /\ TEST_RESULTS' = <<>>
    /\ last' = [NoCall EXCEPT !.op = "clearStore"]
    /\ hist' = [hist EXCEPT !.recent = [p \in Pairs |-> {}],
                            !.overwritten = [p \in Pairs |-> {}]]
    /\ steps' = steps + 1
    /\ UNCHANGED panicked
    /\ UNCHANGED <<instance, concurrency>>

ClearStore ==
    /\ CanCall
    /\ STORE' = clear_store(STORE)
    /\ last' = [NoCall EXCEPT !.op = "clearStore"]
    /\ hist' = [hist EXCEPT !.recent = [p \in Pairs |-> {}],
                            !.overwritten = [p \in Pairs |-> {}]]
    /\ steps' = steps + 1
    /\ UNCHANGED <<FUNCTIONS_MAP, LOGS, TEST_RESULTS, panicked>>
    /\ UNCHANGED <<instance, concurrency>>

AssertFieldEquals(t, i, f, expected) ==
    /\ CanCall
    /\ LET r == assert_field_equals(STORE, TEST_RESULTS, LOGS, t, i, f, expected)
       IN  /\ TEST_RESULTS' = r.tr
           /\ LOGS' = r.logs
           /\ panicked' = r.panic
           /\ last' = [NoCall EXCEPT !.op = "assert.fieldEquals", !.t = t, !.i = i,
                                     !.f = f, !.x = expected,
                                     !.failed = r.failed, !.msg = r.msg]
           /\ hist' = note_failure(hist, TEST_RESULTS, r.failed, r.panic, r.msg)
    /\ steps' = steps + 1
    /\ UNCHANGED <<STORE, FUNCTIONS_MAP>>
    /\ UNCHANGED <<instance, concurrency>>

RegisterTest(name) ==
    /\ CanCall
    /\ LET r == register_test(TEST_RESULTS, LOGS, name)
       IN  /\ TEST_RESULTS' = r.tr
           /\ LOGS' = r.logs
           /\ panicked' = r.panic
    /\ last' = [NoCall EXCEPT !.op = "registerTest", !.x = name]
    /\ steps' = steps + 1
    /\ UNCHANGED <<STORE, FUNCTIONS_MAP, hist>>
    /\ UNCHANGED <<instance, concurrency>>

LogLog(level, msg) ==
    /\ CanCall
    /\ LET r == log(TEST_RESULTS, LOGS, level, msg)
       IN  /\ TEST_RESULTS' = r.tr
           /\ LOGS' = r.logs
           /\ panicked' = r.panic
           /\ hist' = IF level = 1
                      THEN note_failure(hist, TEST_RESULTS, TRUE, r.panic, msg)
                      ELSE IF r.panic THEN hist
                      ELSE [hist EXCEPT !.logged = Put(@, msg, level_from_u32(level))]
    /\ last' = [NoCall EXCEPT !.op = "log.log", !.x = msg, !.failed = (level = 1),
                              !.msg = IF level = 1 THEN msg ELSE <<>>]
    /\ steps' = steps + 1
    /\ UNCHANGED <<STORE, FUNCTIONS_MAP>>
    /\ UNCHANGED <<instance, concurrency>>

StoreNext ==
    \/ \E t \in EntityTypes, i \in EntityIds, data \in Datas : StoreSet(t, i, data)
    \/ \E t \in EntityTypes, i \in EntityIds : StoreGet(t, i)
    \/ \E t \in EntityTypes, i \in EntityIds : StoreRemove(t, i)
    \/ ClearStore
    \/ \E t \in EntityTypes, i \in EntityIds, f \in FieldNames, e \in ExpectedVals :
          AssertFieldEquals(t, i, f, e)
    \/ \E name \in TestNames : RegisterTest(name)
    \/ \E level \in LogLevels, msg \in LogMsgs : LogLog(level, msg)

vars == <<STORE, FUNCTIONS_MAP, LOGS, TEST_RESULTS, panicked, last, steps, hist,
          phase, valid_module, ctx, timeout, elapsed, wd, interrupt, call, outcome,
          invocations, mapping_ctx, threads, poisoned>>

SpecStore == InitRegistries /\ [][StoreNext]_vars

\* flush_logs: prints the report; out is what it printed.
Flush ==
    /\ CanCall
    /\ last' = [NoCall EXCEPT !.op = "flush", !.out = flush_logs(TEST_RESULTS, LOGS)]
    /\ steps' = steps + 1
    /\ UNCHANGED <<registries, panicked, hist>>
    /\ UNCHANGED <<instance, concurrency>>

\* The entity the ledger runs work on: a store.set of it makes an assertion
\* on its symbol pass for one expected value and fail for the other.
LedgerDatas == { ("symbol" :> VString(<<"AAA">>)) }

\* Test registration, logging, assertions and removals that pass and fail,
\* and the report.
LedgerNext ==
    \/ \E name \in TestNames : RegisterTest(name)
    \/ \E level \in LogLevels, msg \in LogMsgs : LogLog(level, msg)
    \/ \E data \in LedgerDatas : StoreSet("Token", "1", data)
    \/ \E e \in ExpectedVals : AssertFieldEquals("Token", "1", "symbol", e)
    \/ StoreRemove("Token", "1")
    \/ ClearStore
    \/ Flush

SpecLedger == InitRegistries /\ [][LedgerNext]_vars

\* ------------------------------------------------------------------ instantiation and watchdog

\* let minimum_wait = Duration::from_secs(1), in half seconds
MinimumWait == 2

Timeouts == 0..MaxTimeout

\* if api_version <= Version::new(0, 0, 4), as the patch number
LegacyApiVersion == 4

ApiVersions == {4, 5}

\* Import names link! gives an implementation to (two of the list stand for
\* all), the two legacy names, and the names of ctx.host_fns.
BuiltinImports == {"store.set", "registerTest"}

LegacyImports == {"arweave.transactionData", "box.profile"}

HostFns == {"chain.hostFn"}

\* A linker that defines the legacy names for every apiVersion.
linked_imports_with_legacy(api_version) == BuiltinImports \cup HostFns \cup LegacyImports

\* The names the linker has a definition for when linker.instantiate runs.
linked_imports(api_version) ==
    BuiltinImports \cup HostFns \cup
        (IF api_version <= LegacyApiVersion THEN LegacyImports ELSE {})

\* linker.instantiate(&valid_module.module) is Ok: every import is defined.
linker_instantiate(m) == m.imports \subseteq linked_imports(m.api_version)

\* The modules instantiated: what they import, "index.missing" being a name
\* nothing implements.
ImportSets ==
    { {"store.set"},
      {"store.set", "chain.hostFn"},
      {"store.set", "arweave.transactionData"},
      {"box.profile"},
      {"store.set", "index.missing"} }

\* The module the handler invocations run on.
HandlerModule == [imports |-> {"store.set", "registerTest", "chain.hostFn"}, api_version |-> 5]

Modules == [imports : ImportSets, api_version : ApiVersions]

\* from_valid_module_with_ctx: the stopwatch is started, the watchdog task is
\* spawned when a timeout is given, the imports are linked and the module is
\* instantiated; if that fails Err is returned and there is no instance, else
\* the instance gets its context.
Instantiate(m, t) ==
    /\ phase = "new"
    /\ valid_module' = m
    /\ timeout' = t
    /\ elapsed' = 0
    /\ wd' = IF t > 0 THEN [NoWatchdog EXCEPT !.pc = "check"] ELSE NoWatchdog
    /\ IF linker_instantiate(m)
       THEN /\ phase' = "idle"
            /\ ctx' = NewCtx
            /\ mapping_ctx' = take_mapping_ctx(mapping_ctx, "after")
       ELSE /\ phase' = "failed"
            /\ ctx' = NoCtx
            /\ UNCHANGED mapping_ctx
    /\ UNCHANGED <<registries, panicked, last, steps, hist, interrupt, call, outcome,
                   invocations, concurrency>>

\* Time passes on the timeout stopwatch.
Tick ==
    /\ phase # "new"
    /\ ~panicked
    /\ elapsed < MaxTime
    /\ elapsed' = elapsed + 1
    /\ UNCHANGED <<registries, panicked, last, steps, hist, phase, ctx, valid_module, mapping_ctx, concurrency, timeout, wd,
                   interrupt, call, outcome, invocations>>

\* timeout.checked_sub(elapsed): {} for None, {time} for Some(time).
time_left(to, el) == IF el > to THEN {} ELSE {to - el}

\* A watchdog that interrupts on its first turn whatever time is left.
watchdog_turn_eager(to, el) == [pc |-> "done", wake |-> 0, interrupt |-> TRUE]

\* A watchdog that, short of the timeout, interrupts and goes on polling.
watchdog_turn_again(to, el) ==
    IF time_left(to, el) = {} THEN [pc |-> "done", wake |-> 0, interrupt |-> TRUE]
    ELSE LET time == CHOOSE x \in time_left(to, el) : TRUE
         IN  IF time < MinimumWait
             THEN [pc |-> "sleep", wake |-> el + 1, interrupt |-> TRUE]
             ELSE [pc |-> "sleep", wake |-> el + time, interrupt |-> FALSE]

\* One turn of the watchdog's loop: interrupt and stop when no time is left or
\* less than minimum_wait is left, else sleep for the time left.
watchdog_turn(to, el) ==
    IF time_left(to, el) = {} THEN [pc |-> "done", wake |-> 0, interrupt |-> TRUE]
    ELSE LET time == CHOOSE x \in time_left(to, el) : TRUE
         IN  IF time < MinimumWait
             THEN [pc |-> "done", wake |-> 0, interrupt |-> TRUE]
             ELSE [pc |-> "sleep", wake |-> el + time, interrupt |-> FALSE]

WatchdogCheck ==
    /\ wd.pc = "check"
    /\ ~panicked
    /\ LET r == watchdog_turn(timeout, elapsed)
       IN  /\ wd' = [pc |-> r.pc, wake |-> r.wake,
                      signals |-> IF r.interrupt THEN wd.signals + 1 ELSE wd.signals,
                      signalled_in |-> IF ~r.interrupt THEN wd.signalled_in
                                       ELSE IF phase = "idle" /\ outcome.kind = "Completed"
                                       THEN "completed"
                                       ELSE phase]
           /\ interrupt' = (interrupt \/ r.interrupt)
    /\ UNCHANGED <<registries, panicked, last, steps, hist, phase, ctx, valid_module, mapping_ctx, concurrency, timeout, elapsed,
                   call, outcome, invocations>>

\* tokio::time::delay_for(time) completes, no earlier than after time.
WatchdogWake ==
    /\ wd.pc = "sleep"
    /\ ~panicked
    /\ elapsed >= wd.wake
    /\ wd' = [wd EXCEPT !.pc = "check"]
    /\ UNCHANGED <<registries, panicked, last, steps, hist, phase, ctx, valid_module, mapping_ctx, concurrency, timeout, elapsed,
                   interrupt, call, outcome, invocations>>

\* ------------------------------------------------------------------ invoke_handler

\* The module's exports as invoke_handler sees them: a handler of the expected
\* signature, an export of another signature, and a name that is not exported.
Handlers == {"handleEvent", "handleOther", "handleMissing"}

get_func(handler) == handler # "handleMissing"

typed_ok(handler) == handler = "handleEvent"

\* A take_ctx that leaves the context in the instance.
take_ctx_leaving(c) == c

\* take_ctx: instance_ctx.borrow_mut().take()
take_ctx(c) == NoCtx

\* invoke_handler from the return of func.call on: the match on the result,
\* the exit from the handler and the value returned. result is "Ok" or the
\* trap's code; by_watchdog says the trap is the watchdog's interrupt.
finish_handler(c, to, cl, result, by_watchdog) ==
    LET base == [NoOutcome EXCEPT !.handler = cl.handler,
                                  !.trap_code = IF result = "Ok" THEN "none" ELSE result,
                                  !.by_watchdog = by_watchdog,
                                  !.possible_reorg = c.possible_reorg,
                                  !.deterministic_host_trap = c.deterministic_host_trap,
                                  !.in_handler_before = cl.entry_in_handler]
        arm == IF result = "Ok" THEN "Ok" ELSE classify_trap(c, result)
    IN  CASE arm = "Ok" ->
               [ctx |-> take_ctx(exit_handler(c)), panic |-> FALSE,
                outcome |-> [base EXCEPT !.kind = "Completed", !.variant = "Ok",
                                         !.in_handler_after = exit_handler(c).in_handler]]
          [] arm = "PossibleReorg" ->
               [ctx |-> exit_handler(c), panic |-> FALSE,
                outcome |-> [base EXCEPT !.kind = "PossibleReorg", !.variant = "PossibleReorg",
                                         !.in_handler_after = exit_handler(c).in_handler]]
          [] arm = "Timeout" ->
               [ctx |-> exit_handler(c), panic |-> (to = 0),
                outcome |-> [base EXCEPT !.kind = "Timeout", !.variant = "Unknown",
                                         !.in_handler_after = exit_handler(c).in_handler]]
          [] arm = "Deterministic" ->
               [ctx |-> take_ctx(exit_handler_and_discard_changes_due_to_error(c)),
                panic |-> FALSE,
                outcome |-> [base EXCEPT
                    !.kind = "RolledBack", !.variant = "Ok",
                    !.in_handler_after =
                        exit_handler_and_discard_changes_due_to_error(c).in_handler]]
          [] OTHER ->
               [ctx |-> exit_handler(c), panic |-> FALSE,
                outcome |-> [base EXCEPT !.kind = "Opaque", !.variant = "Unknown",
                                         !.in_handler_after = exit_handler(c).in_handler]]

\* invoke_handler up to the start of func.call: get_func, enter_handler, typed.
InvokeHandler(handler) ==
    /\ phase = "idle"
    /\ ~panicked
    /\ invocations < MaxInvocations
    /\ invocations' = invocations + 1
    /\ IF ~get_func(handler)
       THEN /\ outcome' = [NoOutcome EXCEPT !.kind = "NotFound", !.variant = "Unknown",
                                            !.handler = handler,
                                            !.in_handler_before = ctx.in_handler,
                                            !.in_handler_after = ctx.in_handler]
            /\ UNCHANGED <<phase, ctx, call, panicked>>
       ELSE IF ~ctx.present
       THEN /\ panicked' = TRUE
            /\ UNCHANGED <<phase, ctx, call, outcome>>
       ELSE IF ~typed_ok(handler)
       THEN /\ ctx' = enter_handler(ctx)
            /\ outcome' = [NoOutcome EXCEPT !.kind = "BadSignature", !.variant = "Unknown",
                                            !.handler = handler,
                                            !.in_handler_before = ctx.in_handler,
                                            !.in_handler_after = enter_handler(ctx).in_handler]
            /\ UNCHANGED <<phase, call, panicked>>
       ELSE /\ ctx' = enter_handler(ctx)
            /\ phase' = "running"
            /\ call' = [handler |-> handler, started |-> elapsed, entry_store |-> STORE,
                        entry_in_handler |-> ctx.in_handler, host_calls |-> 0,
                        written |-> EmptyMap]
            /\ UNCHANGED <<outcome, panicked>>
    /\ UNCHANGED <<registries, last, steps, hist, valid_module, mapping_ctx, concurrency, timeout, elapsed, wd, interrupt>>

Running == phase = "running" /\ ~panicked

CanHostCall == Running /\ call.host_calls < MaxHostCalls

\* func.call returns: Ok(()), or Err(trap) with the trap's code.
EndCall(c, result, by_watchdog) ==
    LET r == finish_handler(c, timeout, call, result, by_watchdog)
    IN  /\ ctx' = r.ctx
        /\ outcome' = r.outcome
        /\ panicked' = r.panic
        /\ phase' = "idle"
        /\ call' = NoInvocation

HandlerReturns ==
    /\ Running
    /\ EndCall(ctx, "Ok", FALSE)
    /\ UNCHANGED <<registries, last, steps, hist, valid_module, mapping_ctx, concurrency, timeout, elapsed, wd, interrupt,
                   invocations>>

\* The handler's own code traps.
WasmTrap(code) ==
    /\ Running
    /\ EndCall(ctx, code, FALSE)
    /\ UNCHANGED <<registries, last, steps, hist, valid_module, mapping_ctx, concurrency, timeout, elapsed, wd, interrupt,
                   invocations>>

\* The running handler reaches a function entry or loop header with the
\* interrupt signalled: the call traps with the interrupt.
InterruptTrap ==
    /\ Running
    /\ interrupt
    /\ interrupt' = FALSE
    /\ EndCall(ctx, "Interrupt", TRUE)
    /\ UNCHANGED <<registries, last, steps, hist, valid_module, mapping_ctx, concurrency, timeout, elapsed, wd, invocations>>

HandlerTypes == {"Token"}
HandlerIds == {"1"}
HandlerDatas ==
    { ("symbol" :> VString(<<"AAA">>)),
      ("symbol" :> VString(<<"BBB">>)) @@ ("decimals" :> VInt(<<"1">>)) }
HandlerTests == { <<"t1">> }

\* The closure link! binds to a built-in import, around a call that returned
\* Ok or Err: Ok goes back to the handler; for Err the closure asks
\* IntoTrap::determinism_level(&e), which is unreachable!().
link_result_panics(is_err) == is_err

HandlerStoreSet(t, i, data) ==
    /\ CanHostCall
    /\ STORE' = mock_store_set(STORE, t, i, data)
    /\ panicked' = link_result_panics(FALSE)
    /\ call' = [call EXCEPT !.host_calls = @ + 1, !.written = Put(@, <<t, i>>, {data})]
    /\ UNCHANGED <<FUNCTIONS_MAP, LOGS, TEST_RESULTS, last, steps, hist, phase, ctx,
                   valid_module, mapping_ctx, concurrency, timeout, elapsed, wd, interrupt, outcome, invocations>>

HandlerStoreRemove(t, i) ==
    /\ CanHostCall
    /\ LET r == mock_store_remove(STORE, TEST_RESULTS, LOGS, t, i)
       IN  /\ STORE' = r.store
           /\ TEST_RESULTS' = r.tr
           /\ LOGS' = r.logs
           /\ panicked' = (r.panic \/ link_result_panics(FALSE))
    /\ call' = [call EXCEPT !.host_calls = @ + 1, !.written = Put(@, <<t, i>>, {})]
    /\ UNCHANGED <<FUNCTIONS_MAP, last, steps, hist, phase, ctx, valid_module, mapping_ctx, concurrency, timeout, elapsed, wd,
                   interrupt, outcome, invocations>>

HandlerRegisterTest(name) ==
    /\ CanHostCall
    /\ LET r == register_test(TEST_RESULTS, LOGS, name)
       IN  /\ TEST_RESULTS' = r.tr
           /\ LOGS' = r.logs
           /\ panicked' = (r.panic \/ link_result_panics(FALSE))
    /\ call' = [call EXCEPT !.host_calls = @ + 1]
    /\ UNCHANGED <<STORE, FUNCTIONS_MAP, last, steps, hist, phase, ctx, valid_module, mapping_ctx, concurrency, timeout, elapsed,
                   wd, interrupt, outcome, invocations>>

\* A built-in host export returns Err (asc_get fails on what the handler
\* passed): the closure panics.
HandlerBuiltinError ==
    /\ CanHostCall
    /\ panicked' = link_result_panics(TRUE)
    /\ call' = [call EXCEPT !.host_calls = @ + 1]
    /\ UNCHANGED <<registries, last, steps, hist, phase, ctx, valid_module, mapping_ctx, concurrency, timeout, elapsed, wd,
                   interrupt, outcome, invocations>>

HostFnResults == {"Ok", "Deterministic", "PossibleReorg", "Unknown"}

\* A closure that takes every error of a chain-specific host function for a
\* deterministic one.
host_fn_flags_any_error(c, res) ==
    IF res = "PossibleReorg" THEN [c EXCEPT !.possible_reorg = TRUE]
    ELSE IF res # "Ok" THEN [c EXCEPT !.deterministic_host_trap = TRUE]
    ELSE c

\* The closure bound to a chain-specific host function: the flags after
\* (host_fn.func)(ctx, call_ptr) returned res.
host_fn_flags(c, res) ==
    IF res = "Deterministic" THEN [c EXCEPT !.deterministic_host_trap = TRUE]
    ELSE IF res = "PossibleReorg" THEN [c EXCEPT !.possible_reorg = TRUE]
    ELSE c

\* A chain-specific host function is called: Ok goes back to the handler, an
\* error sets its flag and ends func.call with a trap that has no code.
HandlerChainHostFn(res) ==
    /\ CanHostCall
    /\ IF res = "Ok"
       THEN /\ call' = [call EXCEPT !.host_calls = @ + 1]
            /\ UNCHANGED <<ctx, outcome, panicked, phase>>
       ELSE EndCall(host_fn_flags(ctx, res), "None", FALSE)
    /\ UNCHANGED <<registries, last, steps, hist, valid_module, mapping_ctx, concurrency, timeout, elapsed, wd, interrupt,
                   invocations>>

Init == InitRegistries

\* The timeouts of the instances the handlers run on: none, and one shorter
\* than minimum_wait, which the watchdog signals on its first turn.
HandlerTimeouts == {0, MinimumWait - 1}

\* One instance and the handler invocations on it, with every trap code and
\* the handler's host calls; the watchdog signals at any point of them.
Next ==
    \/ \E t \in HandlerTimeouts : Instantiate(HandlerModule, t)
    \/ WatchdogCheck
    \/ \E handler \in Handlers : InvokeHandler(handler)
    \/ HandlerReturns
    \/ \E code \in TrapCodes \ {"Interrupt"} : WasmTrap(code)
    \/ InterruptTrap
    \/ \E t \in HandlerTypes, i \in HandlerIds, data \in HandlerDatas : HandlerStoreSet(t, i, data)
    \/ \E t \in HandlerTypes, i \in HandlerIds : HandlerStoreRemove(t, i)
    \/ \E name \in HandlerTests : HandlerRegisterTest(name)
    \/ HandlerBuiltinError
    \/ \E res \in HostFnResults : HandlerChainHostFn(res)

Spec == Init /\ [][Next]_vars

\* The watchdog racing one instance's invocations, with time passing and the
\* watchdog task scheduled: the tokio runtime polls a spawned task that can
\* make progress, and the stopwatch runs on.
WatchdogNext ==
    \/ \E t \in Timeouts : Instantiate(HandlerModule, t)
    \/ Tick
    \/ WatchdogCheck
    \/ WatchdogWake
    \/ \E handler \in Handlers : InvokeHandler(handler)
    \/ HandlerReturns
    \/ \E code \in {"UnreachableCodeReached", "StackOverflow"} : WasmTrap(code)
    \/ InterruptTrap
    \/ \E res \in HostFnResults : HandlerChainHostFn(res)

SpecWatchdog ==
    /\ Init
    /\ [][WatchdogNext]_vars
    /\ WF_vars(Tick)
    /\ WF_vars(WatchdogCheck)
    /\ WF_vars(WatchdogWake)

\* Instantiation of modules with every import set and apiVersion, and
\* invocations on the instances that come out of it.
SetupNext ==
    \/ \E m \in Modules, t \in Timeouts : Instantiate(m, t)
    \/ Tick
    \/ WatchdogCheck
    \/ WatchdogWake
    \/ \E handler \in Handlers : InvokeHandler(handler)
    \/ HandlerReturns
    \/ \E code \in {"UnreachableCodeReached", "StackOverflow"} : WasmTrap(code)
    \/ InterruptTrap

SpecSetup == Init /\ [][SetupNext]_vars

\* ------------------------------------------------------------------ the start function

\* A closure that builds the context from a copy of the mapping context and
\* leaves the mapping context where it is.
materialize_cloning(c, mc, by) ==
    IF c.present THEN [ctx |-> c, mapping_ctx |-> mc, panic |-> FALSE]
    ELSE [ctx |-> NewCtx, mapping_ctx |-> mc, panic |-> FALSE]

\* if instance.is_none() { *instance = Some(..(ctx.borrow_mut().take().unwrap()..)) }:
\* the first lines of the closure link! binds to a built-in import, and the
\* lines after linker.instantiate; take() of a context already moved is None
\* and unwrap panics.
materialize(c, mc, by) ==
    IF c.present THEN [ctx |-> c, mapping_ctx |-> mc, panic |-> FALSE]
    ELSE IF ~mc.held THEN [ctx |-> c, mapping_ctx |-> mc, panic |-> TRUE]
    ELSE [ctx |-> NewCtx, mapping_ctx |-> take_mapping_ctx(mc, by), panic |-> FALSE]

\* The first lines of the closure bound to a chain-specific host function:
\* match &mut *instance { Some(instance) => instance, None => return Err(..) }
host_fn_instance(c) == c.present

\* from_valid_module_with_ctx up to linker.instantiate: the stopwatch, the
\* watchdog and the linking as in Instantiate; a module with an import nothing
\* defines fails to link, any other begins to run its start function.
BeginInstantiate(m, t) ==
    /\ phase = "new"
    /\ valid_module' = m
    /\ timeout' = t
    /\ elapsed' = 0
    /\ wd' = IF t > 0 THEN [NoWatchdog EXCEPT !.pc = "check"] ELSE NoWatchdog
    /\ phase' = IF linker_instantiate(m) THEN "start" ELSE "failed"
    /\ UNCHANGED <<registries, panicked, last, steps, hist, ctx, mapping_ctx, interrupt, call,
                   outcome, invocations, concurrency>>

\* The routine that runs the module's global initializers is at a host call:
\* the start function run by linker.instantiate, or the export _start.
StartCanCall == phase \in {"start", "_start"} /\ ~panicked /\ steps < MaxHostCalls

\* The routine calls store.set.
StartStoreSet(t, i, data) ==
    /\ StartCanCall
    /\ "store.set" \in valid_module.imports
    /\ LET r == materialize(ctx, mapping_ctx, "start")
       IN  /\ ctx' = r.ctx
           /\ mapping_ctx' = r.mapping_ctx
           /\ panicked' = r.panic
           /\ STORE' = IF r.panic THEN STORE ELSE mock_store_set(STORE, t, i, data)
    /\ hist' = [hist EXCEPT !.start_calls = Append(@, <<phase, "store.set">>)]
    /\ steps' = steps + 1
    /\ UNCHANGED <<FUNCTIONS_MAP, LOGS, TEST_RESULTS, last, phase, valid_module, timeout,
                   elapsed, wd, interrupt, call, outcome, invocations, concurrency>>

\* The routine's call ends with a trap: linker.instantiate(..)? returns Err
\* from the start function, .call(()).unwrap() panics on _start.
start_trap(ph) == [phase |-> IF ph = "start" THEN "failed" ELSE ph, panic |-> ph = "_start"]

\* The routine calls a chain-specific host function, which returns res.
StartChainHostFn(res) ==
    /\ StartCanCall
    /\ "chain.hostFn" \in valid_module.imports
    /\ hist' = [hist EXCEPT !.start_calls = Append(@, <<phase, "chain.hostFn">>)]
    /\ steps' = steps + 1
    /\ IF ~host_fn_instance(ctx)
       THEN /\ phase' = start_trap(phase).phase
            /\ panicked' = start_trap(phase).panic
            /\ UNCHANGED ctx
       ELSE IF res = "Ok"
       THEN UNCHANGED <<phase, panicked, ctx>>
       ELSE /\ ctx' = host_fn_flags(ctx, res)
            /\ phase' = start_trap(phase).phase
            /\ panicked' = start_trap(phase).panic
    /\ UNCHANGED <<registries, last, valid_module, mapping_ctx, timeout, elapsed, wd, interrupt,
                   call, outcome, invocations, concurrency>>

\* The routine's own code traps.
StartTraps ==
    /\ phase \in {"start", "_start"}
    /\ ~panicked
    /\ phase' = start_trap(phase).phase
    /\ panicked' = start_trap(phase).panic
    /\ UNCHANGED <<registries, last, steps, hist, ctx, valid_module, mapping_ctx, timeout, elapsed,
                   wd, interrupt, call, outcome, invocations, concurrency>>

\* linker.instantiate returns Ok: the context is built if no host call built
\* it, and for an apiVersion above 0.0.4 the export _start is called.
EndInstantiate ==
    /\ phase = "start"
    /\ ~panicked
    /\ LET r == materialize(ctx, mapping_ctx, "after")
       IN  /\ ctx' = r.ctx
           /\ mapping_ctx' = r.mapping_ctx
           /\ panicked' = r.panic
    /\ phase' = IF valid_module.api_version <= LegacyApiVersion THEN "idle" ELSE "_start"
    /\ UNCHANGED <<registries, last, steps, hist, valid_module, timeout, elapsed, wd, interrupt,
                   call, outcome, invocations, concurrency>>

\* _start returns: from_valid_module_with_ctx returns the instance.
StartExportReturns ==
    /\ phase = "_start"
    /\ ~panicked
    /\ phase' = "idle"
    /\ UNCHANGED <<registries, panicked, last, steps, hist, ctx, valid_module, mapping_ctx,
                   timeout, elapsed, wd, interrupt, call, outcome, invocations, concurrency>>

\* Instantiation of modules whose start function or _start makes host calls,
\* and the first handler invocations on the instances.
\* ------------------------------------------------------------------ concurrent callers

\* A function as the list of its steps: [lock |-> m] is m.lock() (the thread
\* waits until no guard of m is alive, and panics if m is poisoned); [do |-> a,
\* drop |-> ms] is what the function does next under the guards it holds,
\* after which the guards of ms go out of scope. Guards still held when the
\* function returns are dropped then.
Lock(m) == [lock |-> m, do |-> "", drop |-> {}]

Do(a, ms) == [lock |-> "", do |-> a, drop |-> ms]

\* A fail_test that binds the guard of its first statement to a variable.
fail_test_program_keeping_guard ==
    << Lock("TEST_RESULTS"), Do("last_test", {}),
       Lock("TEST_RESULTS"), Do("set_failed", {"TEST_RESULTS"}),
       Lock("LOGS"), Do("log_error", {"LOGS"}) >>

\* fail_test: three statements, each with a temporary guard.
fail_test_program ==
    << Lock("TEST_RESULTS"), Do("last_test", {"TEST_RESULTS"}),
       Lock("TEST_RESULTS"), Do("set_failed", {"TEST_RESULTS"}),
       Lock("LOGS"), Do("log_error", {"LOGS"}) >>

\* register_test: the check, the insertion and the log entry, each with a
\* temporary guard.
register_test_program ==
    << Lock("TEST_RESULTS"), Do("check_duplicate", {"TEST_RESULTS"}),
       Lock("TEST_RESULTS"), Do("insert_test", {"TEST_RESULTS"}),
       Lock("LOGS"), Do("log_info", {"LOGS"}) >>

\* log: level 1 is fail_test, a level above it inserts into LOGS.
log_program(level) ==
    IF level = 1 THEN <<Do("failure_message", {})>> \o fail_test_program
    ELSE << Lock("LOGS"), Do("log_level", {"LOGS"}) >>

\* flush_logs: let test_results = ..lock(); let logs = ..lock(); then the loop.
flush_logs_program == << Lock("TEST_RESULTS"), Lock("LOGS"), Do("print", {}) >>

\* mock_store_set
mock_store_set_program == << Lock("STORE"), Do("set", {}) >>

\* mock_store_remove: let mut map = STORE.lock(); the removal, or fail_test
\* with map alive.
mock_store_remove_program == << Lock("STORE"), Do("remove", {}) >> \o fail_test_program

\* assert_field_equals: let map = STORE.lock(); the checks, and fail_test with
\* map alive when one fails.
assert_field_equals_program == << Lock("STORE"), Do("assert", {}) >> \o fail_test_program

program(c) ==
    CASE c.op = "registerTest" -> register_test_program
      [] c.op = "log.log" -> log_program(c.level)
      [] c.op = "flush" -> flush_logs_program
      [] c.op = "store.set" -> mock_store_set_program
      [] c.op = "store.remove" -> mock_store_remove_program
      [] c.op = "assert.fieldEquals" -> assert_field_equals_program
      [] OTHER -> <<>>

\* The calls the concurrent callers make.
ThreadCalls ==
    { [NoThreadCall EXCEPT !.op = "registerTest", !.x = <<"t1">>],
      [NoThreadCall EXCEPT !.op = "log.log", !.level = 1, !.x = <<"m">>],
      [NoThreadCall EXCEPT !.op = "log.log", !.level = 3, !.x = <<"m">>],
      [NoThreadCall EXCEPT !.op = "flush"],
      [NoThreadCall EXCEPT !.op = "store.set", !.t = "Token", !.i = "1",
                           !.data = {("symbol" :> VString(<<"AAA">>))}],
      [NoThreadCall EXCEPT !.op = "store.remove", !.t = "Token", !.i = "1"],
      [NoThreadCall EXCEPT !.op = "assert.fieldEquals", !.t = "Token", !.i = "1",
                           !.f = "symbol", !.x = <<"AAA">>] }

\* Some thread holds a guard of mutex m.
Locked(m) == \E th \in Threads : m \in threads[th].held

\* The thread after its call returned (ok) or panicked: every guard it holds
\* is dropped.
thread_ends(thr, ok) ==
    [thr EXCEPT !.c = NoThreadCall, !.pc = 0, !.msg = <<>>, !.name = <<>>, !.held = {},
                !.died = ~ok,
                !.registered = IF ok /\ thr.c.op = "registerTest"
                               THEN @ \cup {thr.c.x} ELSE @]

\* The thread after the step at pc: at the next step, or returned.
thread_goes_on(thr, drop) ==
    IF thr.pc = Len(program(thr.c))
    THEN thread_ends(thr, TRUE)
    ELSE [thr EXCEPT !.pc = @ + 1, !.held = @ \ drop]

\* The calls begun so far.
CallsBegun == threads[1].done + threads[2].done

\* A thread that has not panicked calls one of the functions.
ThreadCall(th, c) ==
    /\ threads[th].pc = 0
    /\ ~threads[th].died
    /\ CallsBegun < MaxThreadCalls
    /\ threads' = [threads EXCEPT ![th] = [@ EXCEPT !.c = c, !.pc = 1, !.done = @ + 1]]
    /\ UNCHANGED <<registries, panicked, last, steps, hist, instance, poisoned>>

\* m.lock().expect(..): the thread gets the guard once no guard of the mutex
\* is alive; a poisoned mutex makes expect panic, and the guards the thread
\* holds are dropped in the unwinding, which poisons their mutexes.
ThreadLock(th) ==
    LET thr == threads[th]
        m == program(thr.c)[thr.pc].lock
    IN  /\ thr.pc > 0
        /\ m # ""
        /\ ~Locked(m)
        /\ IF m \in poisoned
           THEN /\ threads' = [threads EXCEPT ![th] = thread_ends(thr, FALSE)]
                /\ poisoned' = poisoned \cup thr.held
           ELSE /\ threads' = [threads EXCEPT ![th] =
                                  thread_goes_on([thr EXCEPT !.held = @ \cup {m}], {})]
                /\ UNCHANGED poisoned
        /\ UNCHANGED <<registries, panicked, last, steps, hist, instance>>

\* What the step a does to the registries and to the thread: the new
\* registries, the thread's message and test name, whether the function
\* returns here, and whether it panics (before or after the step's guards
\* are dropped).
thread_step(thr, a, store, tr, logs) ==
    LET c == thr.c
        same == [store |-> store, tr |-> tr, logs |-> logs, msg |-> thr.msg,
                 name |-> thr.name, returns |-> FALSE, panic |-> "no"]
    IN  CASE a = "failure_message" -> [same EXCEPT !.msg = c.x]
          [] a = "last_test" ->
               IF Len(tr) = 0 THEN [same EXCEPT !.panic = "holding"]
               ELSE [same EXCEPT !.name = tr[Len(tr)].key]
          [] a = "set_failed" -> [same EXCEPT !.tr = index_insert(tr, thr.name, FALSE)]
          [] a = "log_error" -> [same EXCEPT !.logs = index_insert(logs, thr.msg, "ERROR")]
          [] a = "check_duplicate" ->
               IF contains_key(tr, c.x) THEN [same EXCEPT !.panic = "dropped"] ELSE same
          [] a = "insert_test" -> [same EXCEPT !.tr = index_insert(tr, c.x, TRUE)]
          [] a = "log_info" -> [same EXCEPT !.logs = index_insert(logs, c.x, "INFO")]
          [] a = "log_level" ->
               [same EXCEPT !.logs = index_insert(logs, c.x, level_from_u32(c.level))]
          [] a = "set" ->
               [same EXCEPT !.store = mock_store_set(store, c.t, c.i,
                                                     CHOOSE d \in c.data : TRUE)]
          [] a = "remove" ->
               IF has_entity(store, c.t, c.i)
               THEN [same EXCEPT !.store = Put(store, c.t, Del(store[c.t], c.i)),
                                 !.returns = TRUE]
               ELSE [same EXCEPT !.msg = remove_msg(c.t, c.i)]
          [] a = "assert" ->
               IF assert_failure(store, c.t, c.i, c.f, c.x) = <<>>
               THEN [same EXCEPT !.returns = TRUE]
               ELSE [same EXCEPT !.msg = assert_failure(store, c.t, c.i, c.f, c.x)]
          [] OTHER -> same

\* The thread takes the step it is at, under the guards it holds.
ThreadDo(th) ==
    LET thr == threads[th]
        ins == program(thr.c)[thr.pc]
        r == thread_step(thr, ins.do, STORE, TEST_RESULTS, LOGS)
        then == [thr EXCEPT !.msg = r.msg, !.name = r.name]
    IN  /\ thr.pc > 0
        /\ ins.do # ""
        /\ STORE' = r.store
        /\ TEST_RESULTS' = r.tr
        /\ LOGS' = r.logs
        /\ IF r.panic # "no"
           THEN /\ threads' = [threads EXCEPT ![th] = thread_ends(thr, FALSE)]
                /\ poisoned' = poisoned \cup
                      (IF r.panic = "holding" THEN thr.held ELSE thr.held \ ins.drop)
           ELSE /\ threads' = [threads EXCEPT ![th] =
                                  IF r.returns THEN thread_ends(then, TRUE)
                                  ELSE thread_goes_on(then, ins.drop)]
                /\ UNCHANGED poisoned
        /\ UNCHANGED <<FUNCTIONS_MAP, panicked, last, steps, hist, instance>>

ThreadsNext ==
    \/ \E th \in Threads, c \in ThreadCalls : ThreadCall(th, c)
    \/ \E th \in Threads : ThreadLock(th)
    \/ \E th \in Threads : ThreadDo(th)

\* Two threads calling the registry functions; the operating system runs
\* every thread that can take a step.
SpecThreads ==
    /\ Init
    /\ [][ThreadsNext]_vars
    /\ \A th \in Threads : WF_vars(ThreadLock(th)) /\ WF_vars(ThreadDo(th))

StartNext ==
    \/ \E m \in Modules : BeginInstantiate(m, 0)
    \/ \E t \in HandlerTypes, i \in HandlerIds, data \in HandlerDatas : StartStoreSet(t, i, data)
    \/ \E res \in HostFnResults : StartChainHostFn(res)
    \/ StartTraps
    \/ EndInstantiate
    \/ StartExportReturns
    \/ \E handler \in Handlers : InvokeHandler(handler)
    \/ HandlerReturns
    \/ \E code \in {"UnreachableCodeReached", "StackOverflow"} : WasmTrap(code)

SpecStart == Init /\ [][StartNext]_vars

\* ------------------------------------------------------------------ call-stub host calls

CanCallStub == ~panicked /\ steps < MaxStubCalls

MockFunction(addr, fn_name, fn_args, return_value) ==
    /\ CanCallStub
    /\ FUNCTIONS_MAP' = mock_function(FUNCTIONS_MAP, addr, fn_name, fn_args, return_value)
    /\ last' = [NoCall EXCEPT !.op = "mockFunction", !.call = <<addr, fn_name, fn_args>>,
                              !.ret = {return_value}]
    /\ hist' = [hist EXCEPT !.stubs = Put(hist.stubs, <<addr, fn_name, fn_args>>, return_value)]
    /\ steps' = steps + 1
    /\ UNCHANGED <<STORE, LOGS, TEST_RESULTS, panicked>>
    /\ UNCHANGED <<instance, concurrency>>

EthereumCall(addr, fn_name, fn_args) ==
    /\ CanCallStub
    /\ LET r == ethereum_call(FUNCTIONS_MAP, addr, fn_name, fn_args)
       IN  /\ panicked' = r.panic
           /\ last' = [NoCall EXCEPT !.op = "ethereum.call",
                                     !.call = <<addr, fn_name, fn_args>>, !.ret = r.ret]
    /\ steps' = steps + 1
    /\ UNCHANGED <<registries, hist>>
    /\ UNCHANGED <<instance, concurrency>>

StubNext ==
    \/ \E addr \in Addresses, fn_name \in FnNames, fn_args \in ArgLists,
          return_value \in ReturnTokens :
          MockFunction(addr, fn_name, fn_args, return_value)
    \/ \E addr \in Addresses, fn_name \in FnNames, fn_args \in ArgLists :
          EthereumCall(addr, fn_name, fn_args)

SpecStub == InitRegistries /\ [][StubNext]_vars

\* The calls the stubs are registered for and asked for between clears.
ClearAddress == <<"aaaa", "00", "bbbb">>

ClearArgLists == { <<>>, <<TUint(<<"1">>)>> }

\* clearStore among calls on all four registries: stubs and their calls,
\* entities, test registration, log messages and assertions.
ClearNext ==
    \/ \E fn_args \in ClearArgLists, return_value \in ReturnTokens :
          MockFunction(ClearAddress, <<"f">>, fn_args, return_value)
    \/ \E fn_args \in ClearArgLists : EthereumCall(ClearAddress, <<"f">>, fn_args)
    \/ \E data \in LedgerDatas : StoreSet("Token", "1", data)
    \/ StoreGet("Token", "1")
    \/ \E name \in TestNames : RegisterTest(name)
    \/ \E level \in LogLevels, msg \in LogMsgs : LogLog(level, msg)
    \/ \E e \in ExpectedVals : AssertFieldEquals("Token", "1", "symbol", e)
    \/ ClearStore

SpecClear == InitRegistries /\ [][ClearNext]_vars

\* ------------------------------------------------------------------ claims: invocation

LastTestFailed(tr) == Len(tr) > 0 /\ ~tr[Len(tr)].val

\* func.call returned in this step and invoke_handler returned with it.
CallEnds == phase = "running" /\ phase' = "idle"

\* C1: a handler invocation that does store sets and removes and then fails
\* with a Deterministic classification yields RolledBack and leaves the mock
\* store exactly as it was when the invocation began.
C1_Original ==
    [][(CallEnds /\ outcome'.kind = "RolledBack") => STORE' = call.entry_store]_vars

\* C2 as stated: with a timeout configured, an invocation whose execution
\* lasts longer than the timeout ends with the timeout-specific error, never
\* with Completed.
C2_Original ==
    [][(CallEnds /\ timeout > 0 /\ elapsed - call.started > timeout)
          => outcome'.kind = "Timeout"]_vars

\* C2 amended: the interrupt is signalled only with a timeout configured and
\* only once less than minimum_wait of it is left on the instance's stopwatch;
\* an invocation whose call traps on that interrupt with possible_reorg unset
\* returns the timeout error, not Completed and not RolledBack.
C2_InterruptYieldsTimeout ==
    /\ interrupt => (timeout > 0 /\ elapsed + MinimumWait > timeout)
    /\ outcome.by_watchdog =>
          /\ timeout > 0
          /\ ~outcome.possible_reorg => (outcome.kind = "Timeout" /\ outcome.variant = "Unknown")

\* C2 witness: an invocation that began before the timeout ran out was
\* interrupted by the watchdog and returned the timeout error.
C2_Witness ==
    /\ outcome.kind = "Timeout"
    /\ outcome.by_watchdog
    /\ ~panicked
    /\ elapsed >= timeout

\* C3: on every exit path of invoke_handler the nesting counter after the
\* call equals the counter before it.
C3_Original ==
    outcome.kind # "none" => outcome.in_handler_after = outcome.in_handler_before

\* The nine trap codes the classification lists as deterministic.
NineCodes ==
    {"MemoryOutOfBounds", "HeapMisaligned", "TableOutOfBounds", "IndirectCallToNull",
     "BadSignature", "IntegerOverflow", "IntegerDivisionByZero",
     "BadConversionToInteger", "UnreachableCodeReached"}

FirstMatchingRule(o) ==
    IF o.possible_reorg THEN "PossibleReorg"
    ELSE IF o.by_watchdog THEN "Timeout"
    ELSE IF o.trap_code \in NineCodes THEN "RolledBack"
    ELSE IF o.deterministic_host_trap THEN "RolledBack"
    ELSE "Opaque"

\* C4: a failed invocation is classified by the first matching rule in the
\* order: possible_reorg set -> PossibleReorg; else the trap is the watchdog's
\* interrupt -> timeout error; else the trap code is one of the nine
\* deterministic codes -> Deterministic; else deterministic_host_trap set ->
\* Deterministic; else an opaque error.
C4_ClassificationOrder ==
    outcome.trap_code # "none" =>
        /\ outcome.kind = FirstMatchingRule(outcome)
        /\ outcome.variant = (CASE outcome.kind = "PossibleReorg" -> "PossibleReorg"
                                [] outcome.kind = "RolledBack" -> "Ok"
                                [] OTHER -> "Unknown")

\* C4 witness: an invocation on a context whose possible_reorg flag is set
\* trapped on the watchdog's interrupt and was classified PossibleReorg.
C4_Witness ==
    /\ outcome.kind = "PossibleReorg"
    /\ outcome.by_watchdog
    /\ outcome.possible_reorg

\* C5: whenever a handler invocation fails with a Deterministic
\* classification, afterwards the most recently registered test is marked
\* failed in the test ledger.
C5_Original ==
    (outcome.kind = "RolledBack" /\ Len(TEST_RESULTS) > 0) => LastTestFailed(TEST_RESULTS)

\* func.call returned Ok(()) in this step.
NormalReturn == CallEnds /\ outcome'.trap_code = "none"

\* C15: when the handler call returns normally the invocation ends in
\* Completed, with the nesting counter back and nothing discarded, and the
\* mock store afterwards shows, for every (type, id), what the handler's last
\* store.set or store.remove on it left, and what it held at the start of
\* the invocation where the handler wrote nothing.
C15_CompletedKeepsWrites ==
    [][NormalReturn =>
          /\ outcome'.kind = "Completed"
          /\ outcome'.variant = "Ok"
          /\ outcome'.in_handler_after = outcome'.in_handler_before
          /\ \A p \in Pairs :
                mock_store_get(STORE', p[1], p[2]) =
                    IF p \in DOMAIN call.written THEN call.written[p]
                    ELSE mock_store_get(call.entry_store, p[1], p[2])]_vars

\* C15 witness: a handler that set Token/1 twice returned normally, and the
\* store holds what the second store.set wrote.
C15_Witness ==
    /\ outcome.kind = "Completed"
    /\ phase = "idle"
    /\ ~panicked
    /\ mock_store_get(STORE, "Token", "1") =
          {("symbol" :> VString(<<"BBB">>)) @@ ("decimals" :> VInt(<<"1">>))}

\* C16: a failure caused by the timeout watchdog is returned as an error
\* variant other than the variant of the opaque unrecoverable error (Unknown),
\* so that a caller tells the two apart by variant.
C16_Original ==
    outcome.kind = "Timeout" => outcome.variant # "Unknown"

\* ------------------------------------------------------------------ claims: watchdog

\* C17: with a timeout configured the watchdog signals the interrupt exactly
\* once over its life: never twice, having signalled it is done for good,
\* and while the process has not aborted it eventually signals; with no
\* timeout configured there is no watchdog and the interrupt is never
\* signalled.
C17_SignalsOnce ==
    /\ [](/\ wd.signals \in {0, 1}
          /\ wd.signals = 1 <=> wd.pc = "done"
          /\ interrupt => wd.signals = 1
          /\ timeout = 0 => (wd = NoWatchdog /\ ~interrupt))
    /\ [][wd.pc = "done" => wd' = wd]_vars
    /\ (phase # "new" /\ timeout > 0) ~> (wd.signals = 1 \/ panicked)

\* C17 witness: a watchdog that slept through a timeout of more than a
\* second has signalled once and is done.
C17_Witness ==
    /\ timeout > MinimumWait
    /\ wd.pc = "done"
    /\ wd.signals = 1
    /\ ~panicked

\* C18: a signal raised after the handler call has returned normally changes
\* nothing: the step that signals leaves the outcome, the context, the store,
\* the call stubs and the ledger as they are, and no invocation is ever
\* interrupted by such a signal.
C18_LateSignalNoOp ==
    /\ [][(wd'.signals > wd.signals /\ outcome.kind = "Completed" /\ phase = "idle") =>
            /\ outcome' = outcome
            /\ registries' = registries
            /\ ctx' = ctx
            /\ phase' = phase
            /\ panicked' = panicked]_vars
    /\ [](wd.signalled_in = "completed" => (phase # "running" /\ ~outcome.by_watchdog))

\* C18 witness: the watchdog signalled after the invocation had ended
\* Completed, and the outcome is Completed.
C18_Witness ==
    /\ wd.signalled_in = "completed"
    /\ interrupt
    /\ outcome.kind = "Completed"
    /\ ~panicked

\* ------------------------------------------------------------------ claims: instantiation

\* The import names that have a host implementation, said once more: the
\* built-in exports and the chain's host functions for every apiVersion, the
\* arweave and box names only up to apiVersion 0.0.4.
Implemented(m) ==
    {"store.set", "registerTest", "chain.hostFn"} \cup
        (IF m.api_version > 4 THEN {} ELSE {"arweave.transactionData", "box.profile"})

\* C19: if the module declares an import with no registered host
\* implementation (the arweave/box imports included when the apiVersion is
\* above 0.0.4), instantiation returns an error and produces no instance, and
\* no handler is ever invoked on that module.
C19_MissingImportIsFatal ==
    (phase # "new" /\ ~(valid_module.imports \subseteq Implemented(valid_module))) =>
        /\ phase = "failed"
        /\ ~ctx.present
        /\ invocations = 0
        /\ call = NoInvocation
        /\ outcome = NoOutcome

\* C19 witness: a module of apiVersion 0.0.5 that imports
\* arweave.transactionData was instantiated, and instantiation failed.
C19_Witness ==
    /\ phase = "failed"
    /\ valid_module.api_version = 5
    /\ "arweave.transactionData" \in valid_module.imports
    /\ valid_module.imports \ {"arweave.transactionData"} \subseteq Implemented(valid_module)

\* ------------------------------------------------------------------ claims: test ledger

\* A host call ran in this step.
HostCallStep == steps' = steps + 1

NamesUnique ==
    \A j, k \in 1..Len(TEST_RESULTS) : TEST_RESULTS[j].key = TEST_RESULTS[k].key => j = k

\* The entry of logs for text k, reset to level v where it stands.
SetInPlace(logs, k, v) ==
    [j \in 1..Len(logs) |-> IF logs[j].key = k THEN [key |-> k, val |-> v] ELSE logs[j]]

\* C12 as stated: registerTest with a name already in the ledger is fatal and
\* leaves test records and log entries unchanged; with a new name it appends
\* the record (name, passed) and appends an INFO log entry for the name; test
\* names are always unique.
C12_Original ==
    /\ [](NamesUnique)
    /\ [][(HostCallStep /\ last'.op = "registerTest") =>
            IF contains_key(TEST_RESULTS, last'.x)
            THEN panicked' /\ TEST_RESULTS' = TEST_RESULTS /\ LOGS' = LOGS
            ELSE /\ ~panicked'
                 /\ TEST_RESULTS' = Append(TEST_RESULTS, [key |-> last'.x, val |-> TRUE])
                 /\ LOGS' = Append(LOGS, [key |-> last'.x, val |-> "INFO"])]_vars

\* C12 amended: the same, except that the INFO log entry for a new name is
\* appended only when no log entry with that text exists yet; when a message
\* with the name's text was logged before, that entry is set to INFO where it
\* stands and no entry is added.
C12_RegisterTest ==
    /\ [](NamesUnique)
    /\ [][(HostCallStep /\ last'.op = "registerTest") =>
            IF contains_key(TEST_RESULTS, last'.x)
            THEN panicked' /\ TEST_RESULTS' = TEST_RESULTS /\ LOGS' = LOGS
            ELSE /\ ~panicked'
                 /\ TEST_RESULTS' = Append(TEST_RESULTS, [key |-> last'.x, val |-> TRUE])
                 /\ LOGS' = IF \E j \in 1..Len(LOGS) : LOGS[j].key = last'.x
                            THEN SetInPlace(LOGS, last'.x, "INFO")
                            ELSE Append(LOGS, [key |-> last'.x, val |-> "INFO"])]_vars

\* C12 witness: a test was registered under a text that had been logged as a
\* message before another message; its log entry is not the last one.
C12_Witness ==
    /\ last.op = "registerTest"
    /\ ~panicked
    /\ last.x \in DOMAIN hist.logged
    /\ Len(LOGS) >= 2
    /\ LOGS[Len(LOGS)].key # last.x
    /\ TEST_RESULTS[Len(TEST_RESULTS)] = [key |-> last.x, val |-> TRUE]

\* C13: a recorded failure, with at least one test registered, sets to
\* failed the most recently registered test only (also when it or earlier
\* tests had failed before) and leaves the status and the order of every
\* earlier test unchanged.
C13_FailTestFrame ==
    [][(HostCallStep /\ last'.failed /\ Len(TEST_RESULTS) > 0) =>
          /\ ~panicked'
          /\ Len(TEST_RESULTS') = Len(TEST_RESULTS)
          /\ TEST_RESULTS'[Len(TEST_RESULTS)] =
                [key |-> TEST_RESULTS[Len(TEST_RESULTS)].key, val |-> FALSE]
          /\ \A j \in 1..(Len(TEST_RESULTS) - 1) : TEST_RESULTS'[j] = TEST_RESULTS[j]]_vars

\* C13 witness: a failure was recorded with two tests registered; the first
\* test is still passed and the second is failed.
C13_Witness ==
    /\ last.failed
    /\ ~panicked
    /\ Len(TEST_RESULTS) = 2
    /\ TEST_RESULTS[1].val
    /\ ~TEST_RESULTS[2].val

\* ------------------------------------------------------------------ claims: call stubs

\* C9: ethereum.call on a triple (address, function name, arguments) that
\* mockFunction was called with returns the return value of the most recent
\* mockFunction call for that identical triple, and does not abort.
C9_Original ==
    (last.op = "ethereum.call" /\ last.call \in DOMAIN hist.stubs) =>
        (~panicked /\ last.ret = {hist.stubs[last.call]})

\* C10: ethereum.call on a triple that mockFunction was never called with
\* aborts and returns no value.
C10_Original ==
    (last.op = "ethereum.call" /\ last.call \notin DOMAIN hist.stubs) =>
        (panicked /\ last.ret = {})

\* The stubs registered so far all carry the address of the last call, so
\* any other registered triple differs from the called one in its function
\* name or in its arguments (their order, values or types).
SameAddressStubs == \A u \in DOMAIN hist.stubs : u[1] = last.call[1]

\* C11: registering a stub for a triple never changes or supplies the result
\* of resolving a triple that differs from it in function name, argument
\* order, an argument's value or an argument's type: with only one address in
\* play, ethereum.call returns what was last registered for its own triple,
\* and aborts when nothing was registered for it.
C11_Original ==
    (last.op = "ethereum.call" /\ SameAddressStubs) =>
        IF last.call \in DOMAIN hist.stubs
        THEN ~panicked /\ last.ret = {hist.stubs[last.call]}
        ELSE panicked /\ last.ret = {}

\* ------------------------------------------------------------------ claims: mock store

D_symbol == ("symbol" :> VString(<<"AAA">>))
D_both == ("symbol" :> VString(<<"BBB">>)) @@ ("decimals" :> VInt(<<"1">>))

\* C6: store.get(t, i) returns exactly the field mapping of the most recent
\* store.set(t, i, _) when no store.remove(t, i) or clearStore came after it
\* (no field of an earlier mapping survives), and returns none for a pair that
\* store.set was never called on.
C6_GetReturnsLastSet ==
    last.op = "store.get" =>
        LET p == <<last.t, last.i>>
        IN  /\ hist.recent[p] # {} => last.ret = hist.recent[p]
            /\ p \notin hist.ever => last.ret = {}

\* C6 witness: set(t, i, {symbol, decimals}), then set(t, i, {symbol}), then
\* get(t, i) gave the second mapping, without the field decimals.
C6_Witness ==
    /\ last.op = "store.get"
    /\ hist.overwritten[<<last.t, last.i>>] = {D_both}
    /\ hist.recent[<<last.t, last.i>>] = {D_symbol}
    /\ last.ret = {D_symbol}

RemoveOfMissing ==
    /\ last'.op = "store.remove"
    /\ ~(last'.t \in DOMAIN STORE /\ last'.i \in DOMAIN STORE[last'.t])

HasErrorLog(logs, msg) == \E j \in 1..Len(logs) : logs[j] = [key |-> msg, val |-> "ERROR"]

\* C7 as stated: store.remove(t, i) of a pair that is not in the store leaves
\* the store unchanged, does not abort, marks the current test failed and
\* appends an ERROR log entry whose message contains t and i.
C7_Original ==
    [][RemoveOfMissing =>
        /\ STORE' = STORE
        /\ ~panicked'
        /\ LastTestFailed(TEST_RESULTS')
        /\ LOGS' = Append(LOGS, [key |-> last'.msg, val |-> "ERROR"])
        /\ Contains(last'.msg, <<last'.t>>)
        /\ Contains(last'.msg, <<last'.i>>)]_vars

\* C7 amended: when at least one test is registered, store.remove(t, i) of a
\* pair that is not in the store leaves the store unchanged, does not abort,
\* marks the most recently registered test failed (and no other), and leaves an
\* ERROR log entry whose message contains t and i: appended when no entry has
\* that text yet, otherwise the entry with that text is set to ERROR in place.
C7_RemoveMissingRecordsFailure ==
    [][(RemoveOfMissing /\ Len(TEST_RESULTS) > 0) =>
        /\ STORE' = STORE
        /\ ~panicked'
        /\ Len(TEST_RESULTS') = Len(TEST_RESULTS)
        /\ LastTestFailed(TEST_RESULTS')
        /\ \A j \in 1..(Len(TEST_RESULTS) - 1) : TEST_RESULTS'[j] = TEST_RESULTS[j]
        /\ HasErrorLog(LOGS', last'.msg)
        /\ Contains(last'.msg, <<last'.t>>)
        /\ Contains(last'.msg, <<last'.i>>)
        /\ IF contains_key(LOGS, last'.msg)
           THEN /\ Len(LOGS') = Len(LOGS)
                /\ \A j \in 1..Len(LOGS) : LOGS'[j].key = LOGS[j].key
           ELSE LOGS' = Append(LOGS, [key |-> last'.msg, val |-> "ERROR"])]_vars

\* C7 witness: a store.remove of an id missing from an existing bucket has
\* failed the registered test without a panic.
C7_Witness ==
    /\ last.op = "store.remove"
    /\ last.failed
    /\ ~panicked
    /\ last.t \in DOMAIN STORE
    /\ LastTestFailed(TEST_RESULTS)
    /\ HasErrorLog(LOGS, last.msg)

NoTypeMsgs == { no_type_msg(t) : t \in EntityTypes }
NoIdMsgs == { no_id_msg(t, i) : t \in EntityTypes, i \in EntityIds }
NoFieldMsgs == { no_field_msg(f, t, i) : f \in FieldNames, t \in EntityTypes, i \in EntityIds }
MismatchMsgs ==
    { mismatch_msg(f, e, v) : f \in FieldNames, e \in ExpectedVals,
                              v \in UNION { {d[g] : g \in DOMAIN d} : d \in Datas } }

\* The set of messages the first failing check of assert.fieldEquals(t, i, f, e)
\* may record in store st: type, then id, then field, then value; {} if none fails.
FirstFailing(st, t, i, f, e) ==
    IF t \notin DOMAIN st THEN NoTypeMsgs
    ELSE IF i \notin DOMAIN st[t] THEN NoIdMsgs
    ELSE IF f \notin DOMAIN st[t][i] THEN NoFieldMsgs
    ELSE IF st[t][i][f].s # e THEN MismatchMsgs
    ELSE {}

MsgKindsDistinct ==
    /\ NoTypeMsgs \cap (NoIdMsgs \cup NoFieldMsgs \cup MismatchMsgs) = {}
    /\ NoIdMsgs \cap (NoFieldMsgs \cup MismatchMsgs) = {}
    /\ NoFieldMsgs \cap MismatchMsgs = {}

\* What C8 says of one assert.fieldEquals step, given whether it is to hold
\* only with a test registered.
AssertStepOk ==
    LET t == last'.t
        i == last'.i
        f == last'.f
        e == last'.x
        kind == FirstFailing(STORE, t, i, f, e)
    IN  /\ MsgKindsDistinct
        /\ IF kind = {}
           THEN /\ ~last'.failed
                /\ UNCHANGED <<TEST_RESULTS, LOGS, panicked>>
           ELSE /\ ~panicked'
                /\ last'.msg \in kind
                /\ Len(TEST_RESULTS') = Len(TEST_RESULTS)
                /\ LastTestFailed(TEST_RESULTS')
                /\ \A j \in 1..(Len(TEST_RESULTS) - 1) : TEST_RESULTS'[j] = TEST_RESULTS[j]
                /\ HasErrorLog(LOGS', last'.msg)
                /\ \A j \in 1..Len(LOGS') :
                      LOGS'[j].key # last'.msg => (j <= Len(LOGS) /\ LOGS'[j] = LOGS[j])
                /\ kind = MismatchMsgs =>
                      /\ Contains(last'.msg, e)
                      /\ Contains(last'.msg, STORE[t][i][f].s)

\* C8 as stated: every assert.fieldEquals checks type, id, field, value in that
\* order and records exactly one failure at the first failing check, with four
\* pairwise distinct messages, the mismatch one naming expected and actual.
C8_Original == [][last'.op = "assert.fieldEquals" => AssertStepOk]_vars

\* C8 amended: the same, for an assert.fieldEquals called when at least one
\* test is registered (with none registered a failing check panics in
\* fail_test and records nothing).
C8_AssertOrderAndMessages ==
    [][(last'.op = "assert.fieldEquals" /\ Len(TEST_RESULTS) > 0) => AssertStepOk]_vars

\* C8 witness: a value mismatch was recorded against the registered test, the
\* earlier checks (type, id, field) having passed.
C8_Witness ==
    /\ last.op = "assert.fieldEquals"
    /\ last.failed
    /\ ~panicked
    /\ last.msg \in MismatchMsgs
    /\ LastTestFailed(TEST_RESULTS)

\* What C21 says of the host call made right after a clearStore: a store.get
\* returns none, an assert.fieldEquals records the missing-type failure.
AfterClearOk ==
    /\ last'.op = "store.get" => last'.ret = {}
    /\ last'.op = "assert.fieldEquals" =>
          /\ last'.failed
          /\ last'.msg = no_type_msg(last'.t)
          /\ ~panicked'
          /\ LastTestFailed(TEST_RESULTS')
          /\ HasErrorLog(LOGS', last'.msg)

\* The store holds nothing: every get is none and every assertion stops at the
\* missing type.
NothingStored ==
    /\ \A t \in EntityTypes, i \in EntityIds : mock_store_get(STORE, t, i) = {}
    /\ \A t \in EntityTypes, i \in EntityIds, f \in FieldNames, e \in ExpectedVals :
          assert_failure(STORE, t, i, f, e) = no_type_msg(t)

\* C21 as stated: after clearStore, whatever store.set / store.remove calls
\* came before it, store.get returns none for every type and id and
\* assert.fieldEquals on any type reports the missing-type failure.
C21_Original ==
    [][last.op = "clearStore" => (NothingStored /\ AfterClearOk)]_vars

\* C21 amended: after clearStore, whatever came before it, store.get returns
\* none for every type and id, and assert.fieldEquals on any type stops at the
\* missing-type check; when at least one test is registered it records the
\* missing-type failure against the last test (with none registered it panics
\* in fail_test).
C21_ClearDropsAll ==
    [][last.op = "clearStore" =>
        /\ NothingStored
        /\ Len(TEST_RESULTS) > 0 => AfterClearOk]_vars

\* C21 witness: a type that store.set had put an entity under is reported
\* missing by an assert.fieldEquals after a clearStore.
C21_Witness ==
    /\ last.op = "assert.fieldEquals"
    /\ last.msg = no_type_msg(last.t)
    /\ ~panicked
    /\ \E i \in EntityIds : <<last.t, i>> \in hist.ever
    /\ STORE = EmptyMap
    /\ HasErrorLog(LOGS, last.msg)

\* ------------------------------------------------------------------ claims: ledger summary and report

\* summary() -> (passed_count, failed_count)
ledger_summary(tr) == <<get_successful_tests(tr), get_failed_tests(tr)>>

\* C14: after any sequence of registerTest, store, assertion and log calls
\* the summary (passed, failed) has passed + failed equal to the number of
\* registered tests, and a test counts as failed exactly when a failure was
\* recorded while it was the most recently registered test.
C14_SummaryCounts ==
    LET names == {TEST_RESULTS[j].key : j \in 1..Len(TEST_RESULTS)}
        summary == ledger_summary(TEST_RESULTS)
    IN  /\ summary[1] + summary[2] = Cardinality(names)
        /\ summary[2] = Cardinality(hist.failed)
        /\ hist.failed \subseteq names
        /\ \A j \in 1..Len(TEST_RESULTS) :
              TEST_RESULTS[j].val <=> TEST_RESULTS[j].key \notin hist.failed

\* C14 witness: under a single registered test, after the entity was set, an
\* assertion on it failed on the value; the summary is (0 passed, 1 failed).
C14_Witness ==
    /\ ~panicked
    /\ Len(TEST_RESULTS) = 1
    /\ last.op = "assert.fieldEquals"
    /\ last.failed
    /\ last.msg \in MismatchMsgs
    /\ steps = MaxSteps
    /\ ledger_summary(TEST_RESULTS) = <<0, 1>>

Printed == last.out

InEntryOrder ==
    /\ Len(Printed) = Len(LOGS)
    /\ \A j \in 1..Len(LOGS) : Printed[j].text = LOGS[j].key

MarkersAreTests ==
    \A j \in 1..Len(LOGS) :
        LET registered == \E n \in 1..Len(TEST_RESULTS) : TEST_RESULTS[n].key = LOGS[j].key
        IN  /\ registered <=> Printed[j].kind \in {"pass", "fail"}
            /\ registered =>
                  \E n \in 1..Len(TEST_RESULTS) :
                      /\ TEST_RESULTS[n].key = LOGS[j].key
                      /\ Printed[j].kind = (IF TEST_RESULTS[n].val THEN "pass" ELSE "fail")

\* C20 as stated: flush emits the entries in insertion order; an entry is a
\* pass/fail marker exactly when it is a registered test name; and every
\* logged message and every recorded failure message is a log line with the
\* level it was logged at (a level outside 1..5 has no word to print).
C20_Original ==
    last.op = "flush" =>
        /\ InEntryOrder
        /\ MarkersAreTests
        /\ \A msg \in DOMAIN hist.logged :
              \E j \in 1..Len(Printed) :
                  /\ Printed[j].kind = "log"
                  /\ Printed[j].text = msg
                  /\ Printed[j].level = hist.logged[msg] \/ hist.logged[msg] = "UNKNOWN"

\* C20 amended: flush emits one line per entry, in the order in which the
\* entries' texts were first inserted; an entry is a pass/fail marker, by the
\* test's current status, exactly when its text is a registered test name,
\* also when that text was logged as a message; every other entry is a log
\* line with its text and the level word of the last time the text was
\* logged, with no level word when that level is none of ERROR, WARNING,
\* INFO, DEBUG, SUCCESS.
C20_FlushReport ==
    last.op = "flush" =>
        /\ InEntryOrder
        /\ MarkersAreTests
        /\ \A j \in 1..Len(LOGS) :
              ~(\E n \in 1..Len(TEST_RESULTS) : TEST_RESULTS[n].key = LOGS[j].key) =>
                  /\ LOGS[j].key \in DOMAIN hist.logged
                  /\ Printed[j].kind = "log"
                  /\ Printed[j].level = (IF hist.logged[LOGS[j].key] \in
                                              {"ERROR", "WARNING", "INFO", "DEBUG", "SUCCESS"}
                                         THEN hist.logged[LOGS[j].key] ELSE "")

\* C20 witness: the report has the fail marker of a test and, after it, the
\* ERROR line of the failure message.
C20_Witness ==
    /\ last.op = "flush"
    /\ \E j, k \in 1..Len(Printed) :
          /\ j < k
          /\ Printed[j].kind = "fail"
          /\ Printed[k].kind = "log"
          /\ Printed[k].level = "ERROR"

\* ------------------------------------------------------------------ claims: execution context

\* C22 as stated: once the instance has its execution context, the context
\* stays present however many handler invocations ran and however they ended,
\* so that a further invocation or host call finds it.
C22_Original == phase \in {"idle", "running"} => ctx.present

\* C23 as stated: when a built-in host function returns an error during an
\* invocation, the wrapper does not crash the harness: it sets the sticky flag
\* of the error's kind (deterministic_host_trap or possible_reorg) and the
\* call goes on to end with a trap.
C23_Original ==
    [][HandlerBuiltinError =>
        /\ ~panicked'
        /\ ctx'.deterministic_host_trap \/ ctx'.possible_reorg]_vars

\* The flags invoke_handler's match read after the call in flight ended, or
\* the flags of the context when the call goes on.
FlagsAfter ==
    IF phase' = "running"
    THEN <<ctx'.deterministic_host_trap, ctx'.possible_reorg>>
    ELSE <<outcome'.deterministic_host_trap, outcome'.possible_reorg>>

\* C27: a chain-specific host function's result sets the sticky flags by its
\* kind: Deterministic sets deterministic_host_trap and leaves possible_reorg
\* as it was, PossibleReorg sets possible_reorg and leaves
\* deterministic_host_trap as it was, Unknown and Ok change neither.
C27_ChainFlagsByKind ==
    [][\A res \in HostFnResults :
        HandlerChainHostFn(res) =>
            FlagsAfter =
                CASE res = "Deterministic" -> <<TRUE, ctx.possible_reorg>>
                  [] res = "PossibleReorg" -> <<ctx.deterministic_host_trap, TRUE>>
                  [] OTHER -> <<ctx.deterministic_host_trap, ctx.possible_reorg>>]_vars

\* C27 witness: on a context whose possible_reorg flag an earlier call had
\* set, a chain-specific host function failed with a Deterministic error; the
\* match saw both flags set.
C27_Witness ==
    /\ outcome.trap_code = "None"
    /\ outcome.deterministic_host_trap
    /\ outcome.possible_reorg
    /\ invocations = 2

\* ------------------------------------------------------------------ claims: watchdog timing

\* C24 as stated: the watchdog never signals the interrupt before the
\* stopwatch has reached the configured timeout: whenever the interrupt has
\* been signalled, elapsed >= timeout.
C24_Original == wd.signals > 0 => elapsed >= timeout

\* ------------------------------------------------------------------ claims: the start function

\* A built-in host call was made by the start function that linker.instantiate runs.
BuiltinCalledInStart ==
    \E j \in 1..Len(hist.start_calls) : hist.start_calls[j] = <<"start", "store.set">>

C26_Original ==
    [][(phase = "start" /\ ~ctx.present
            /\ hist'.start_calls = Append(hist.start_calls, <<"start", "chain.hostFn">>)) =>
        (ctx'.present /\ phase' = "start")]_vars

\* ------------------------------------------------------------------ claims: locking

\* C28 as stated: no operation holds the lock of one guarded structure while
\* it acquires the lock of another: every thread holds at most one of the
\* locks at any time.
C28_Original == \A th \in Threads : Cardinality(threads[th].held) <= 1

\* The order in which the functions take the locks.
LockRank(m) ==
    CASE m = "STORE" -> 1
      [] m = "TEST_RESULTS" -> 2
      [] m = "LOGS" -> 3
      [] OTHER -> 0

\* C29: concurrent callers of the store, assertion, ledger, logging and flush
\* functions never deadlock: a thread that takes a lock while holding others
\* holds only locks that come earlier in the order STORE, TEST_RESULTS, LOGS,
\* and every call that has begun eventually ends (returns or panics) with all
\* its locks released.
C29_NoDeadlock ==
    /\ [][\A th \in Threads :
            \A m \in threads'[th].held \ threads[th].held :
                \A h \in threads[th].held : LockRank(h) < LockRank(m)]_vars
    /\ \A th \in Threads :
          (threads[th].pc > 0) ~> (threads[th].pc = 0 /\ threads[th].held = {})

\* C29 witness: one thread is in fail_test with the store locked, waiting
\* for TEST_RESULTS, which the other thread holds in flush_logs while it is
\* about to take LOGS.
C29_Witness ==
    /\ threads[1].held = {"STORE"}
    /\ threads[1].pc > 0
    /\ program(threads[1].c)[threads[1].pc].lock = "TEST_RESULTS"
    /\ threads[2].c.op = "flush"
    /\ threads[2].held = {"TEST_RESULTS"}

\* C30 as stated: of two concurrent register_test calls with the same name at
\* most one returns Ok, however they interleave; the other one is fatal.
C30_Original ==
    \A a \in Threads, b \in Threads :
        a # b => threads[a].registered \cap threads[b].registered = {}

\* ------------------------------------------------------------------ claims: ledger over time

\* C31: test status is monotonic: no host call (assertion, log, store
\* operation, clearStore, registration, flush) removes or reorders a test
\* record, and a test that is failed stays failed.
C31_StatusMonotonic ==
    [][/\ Len(TEST_RESULTS') >= Len(TEST_RESULTS)
       /\ \A j \in 1..Len(TEST_RESULTS) :
             /\ TEST_RESULTS'[j].key = TEST_RESULTS[j].key
             /\ ~TEST_RESULTS[j].val => ~TEST_RESULTS'[j].val]_vars

\* C31 witness: a test failed, another test was registered after it, and the
\* report was printed; the first test is still failed and the second passed.
C31_Witness ==
    /\ Len(TEST_RESULTS) = 2
    /\ ~TEST_RESULTS[1].val
    /\ TEST_RESULTS[2].val
    /\ last.op = "flush"
    /\ ~panicked

\* ------------------------------------------------------------------ claims: sticky flags

\* C32: while the instance keeps its context, deterministic_host_trap and
\* possible_reorg only go from unset to set: no host call and no exit path of
\* invoke_handler clears them; so when an invocation ended with the
\* PossibleReorg or the Unknown error (the context is kept), a later
\* invocation that traps is classified by the flags the earlier one left:
\* PossibleReorg again when possible_reorg was set, and never the opaque
\* Unknown error when deterministic_host_trap was set.
C32_FlagsSticky ==
    [][/\ (ctx.present /\ ctx'.present) =>
             /\ ctx.deterministic_host_trap => ctx'.deterministic_host_trap
             /\ ctx.possible_reorg => ctx'.possible_reorg
       /\ (CallEnds /\ outcome.variant \in {"PossibleReorg", "Unknown"}
                    /\ outcome'.trap_code # "none") =>
             /\ outcome.possible_reorg =>
                   outcome'.possible_reorg /\ outcome'.kind = "PossibleReorg"
             /\ outcome.deterministic_host_trap =>
                   /\ outcome'.deterministic_host_trap
                   /\ outcome'.kind \in {"PossibleReorg", "Timeout", "RolledBack"}]_vars

\* C32 witness: the second invocation trapped on a memory access out of
\* bounds, a deterministic code, and ended with the PossibleReorg error because
\* of the flag the first invocation had set.
C32_Witness ==
    /\ invocations = 2
    /\ outcome.trap_code = "MemoryOutOfBounds"
    /\ outcome.kind = "PossibleReorg"
    /\ ctx.present
    /\ ctx.possible_reorg

\* ------------------------------------------------------------------ claims: log entries by text

\* The texts that were logged, recorded as a failure message or registered
\* as a test name.
TextsSeen == DOMAIN hist.logged \cup { TEST_RESULTS[j].key : j \in 1..Len(TEST_RESULTS) }

\* The text the host call of this step put into LOGS and the level it put it
\* at: the failure message at ERROR, the test name at INFO, the message of
\* log.log at its level.
TextPut == IF last'.failed THEN last'.msg ELSE last'.x

LevelPut ==
    IF last'.failed THEN "ERROR"
    ELSE IF last'.op = "registerTest" THEN "INFO"
    ELSE hist'.logged[last'.x]

PutsText == last'.failed \/ last'.op \in {"registerTest", "log.log"}

\* C33: LOGS is keyed by text: no two entries have the same text and there
\* are as many entries as distinct texts logged, recorded as a failure or
\* registered; no entry ever changes its position; and a call that logs,
\* fails with or registers a text equal to that of an existing entry adds no
\* entry and sets that entry to the new level where it stands.
C33_LogsKeyedByText ==
    /\ [](/\ \A j, k \in 1..Len(LOGS) : LOGS[j].key = LOGS[k].key => j = k
          /\ Len(LOGS) = Cardinality(TextsSeen))
    /\ [][/\ Len(LOGS') >= Len(LOGS)
          /\ \A j \in 1..Len(LOGS) : LOGS'[j].key = LOGS[j].key
          /\ (HostCallStep /\ ~panicked' /\ PutsText /\ contains_key(LOGS, TextPut)) =>
                LOGS' = SetInPlace(LOGS, TextPut, LevelPut)
          /\ (HostCallStep /\ ~panicked' /\ PutsText /\ ~contains_key(LOGS, TextPut)) =>
                LOGS' = Append(LOGS, [key |-> TextPut, val |-> LevelPut])]_vars

\* C33 witness: log.log was called with the text of the first of two entries,
\* the INFO entry of test t1, at another level: there are still two entries
\* and the first one has the new level.
C33_Witness ==
    /\ Len(LOGS) = 2
    /\ <<"t1">> \in { TEST_RESULTS[j].key : j \in 1..Len(TEST_RESULTS) }
    /\ LOGS[1].key = <<"t1">>
    /\ LOGS[1].val # "INFO"
    /\ last.op = "log.log"
    /\ last.x = <<"t1">>
    /\ ~panicked

\* ------------------------------------------------------------------ claims: frame of the store calls

\* C34: clearStore changes the mock store only: it leaves the store empty and
\* the call stubs, the test records and the log entries as they were, so
\* every call answers from its stub after the clear as it did before, and
\* the tests counted as passed and failed are the same.
C34_ClearFrame ==
    [][(HostCallStep /\ last'.op = "clearStore") =>
          /\ STORE' = EmptyMap
          /\ FUNCTIONS_MAP' = FUNCTIONS_MAP
          /\ TEST_RESULTS' = TEST_RESULTS
          /\ LOGS' = LOGS
          /\ ~panicked'
          /\ \A fn_args \in ClearArgLists :
                ethereum_call(FUNCTIONS_MAP', ClearAddress, <<"f">>, fn_args) =
                ethereum_call(FUNCTIONS_MAP, ClearAddress, <<"f">>, fn_args)
          /\ get_failed_tests(TEST_RESULTS') = get_failed_tests(TEST_RESULTS)
          /\ flush_logs(TEST_RESULTS', LOGS') = flush_logs(TEST_RESULTS, LOGS)]_vars

\* C34 witness: the store was cleared after an entity had been set, with a
\* stub and a test registered: the store is empty, the stub and the test
\* are there.
C34_Witness ==
    /\ last.op = "clearStore"
    /\ hist.ever # {}
    /\ STORE = EmptyMap
    /\ FUNCTIONS_MAP # EmptyMap
    /\ Len(TEST_RESULTS) > 0
    /\ Len(LOGS) > 0

\* A store.set, or a store.remove of an entity that was there, ran in this step.
SetOrRemoved ==
    /\ HostCallStep
    /\ \/ last'.op = "store.set"
       \/ last'.op = "store.remove" /\ ~last'.failed

\* C35: store.set(t, i, data) and a store.remove(t, i) of an entity that is
\* there change the entry (t, i) only: get of every other pair of type and id
\* gives after the call what it gave before, and the test records, the log
\* entries and the call stubs are as they were.
C35_StoreFrame ==
    [][SetOrRemoved =>
          /\ \A p \in Pairs \ {<<last'.t, last'.i>>} :
                mock_store_get(STORE', p[1], p[2]) = mock_store_get(STORE, p[1], p[2])
          /\ TEST_RESULTS' = TEST_RESULTS
          /\ LOGS' = LOGS
          /\ FUNCTIONS_MAP' = FUNCTIONS_MAP
          /\ ~panicked']_vars

\* C35 witness: an entity was removed while another id of its type and an
\* entity of another type are stored; both are still there.
C35_Witness ==
    /\ last.op = "store.remove"
    /\ ~last.failed
    /\ mock_store_get(STORE, last.t, last.i) = {}
    /\ \E i \in EntityIds \ {last.i} : mock_store_get(STORE, last.t, i) # {}
    /\ \E p \in Pairs : p[1] # last.t /\ mock_store_get(STORE, p[1], p[2]) # {}

\* The same for store.set: an entity was set while another id of its type is
\* stored.
C35_SetBesideAnother ==
    /\ last.op = "store.set"
    /\ \E i \in EntityIds \ {last.i} : mock_store_get(STORE, last.t, i) # {}

====
